---- MODULE Spec2Model ----
(***************************************************************************)
(* mcp-git-blame: the blame-porcelain parser (BlameParser), the line-range *)
(* filter of GitService.getBlameInfo, and GitService.getCommitDetail: the  *)
(* header parsing, the name-status / numstat merge and aggregation, the    *)
(* per-file patch splitter, and the request with its gateway calls.        *)
(*                                                                         *)
(* A JavaScript string is a sequence of one-character strings, so that     *)
(* split, substring, startsWith, charAt, parseInt and the header regular   *)
(* expression are computed character by character as the code computes     *)
(* them.  undefined is the value Undefined, null is Null, a JavaScript     *)
(* number n inside an optional field is <<"number", n>>.                   *)
(***************************************************************************)
EXTENDS Integers, Sequences, FiniteSets, TLC

VARIABLES
    \* BlameParser.parseBlameOutput, one loop iteration per step
    blameOutput,    \* the argument: the raw blame text
    lines,          \* blameOutput.split('\n')
    i,              \* the loop index (1-based here, 0-based in the code)
    current,        \* the accumulator: Null or a partial GitBlameLine
    blameLines,     \* the records pushed so far
    ppc,            \* "loop" | "returned"
    \* GitService.getBlameInfo, one step per await
    params,         \* GitBlameParams of the request
    bpc,            \* "start" | "checkIsRepo" | "blame" | "done"
    blameResult,    \* the resolved value, or Null
    blameError,     \* the rejection's Error, or Null
    calls,          \* the gateway calls issued so far, each with its outcome
    \* GitService.getCommitDetail: changed files, one report line per step
    nameStatusOut,  \* text of git show --name-status
    numstatOut,     \* text of git show --numstat
    cpc,            \* "status" | "numstat" | "aggregate" | "done"
    ci,             \* index of the next line of the report being read
    pathToChange,   \* the Map, as the sequence of its values in insertion order
    totals,         \* [filesChanged, insertions, deletions] once aggregated, else Null
    \* GitService.getCommitDetail: header parsing, one header line per step
    headerInfo,     \* text of git show --format=fuller --no-patch
    hi,             \* index of the next header line
    headerFields,   \* the fields initialised at "Initialize fields", as a record
    hpc,            \* "loop" | "done"
    \* GitService.getCommitDetail: per-file patches, one line of the diff per step
    patchSource,    \* the diff text that is split
    si,             \* index of the next line of patchSource
    currentPatch,   \* the splitter's current: Null or [aPath, bPath, patch]
    buffer,         \* the lines of the open section
    filePatches,    \* the closed sections, in order
    pathToPatch,    \* the Map from stripped path to section text
    cfList,         \* changedFiles: the ChangedFile list the patches are assigned to
    spc,            \* "split" | "index" | "assign" | "done"
    \* GitService.getCommitDetail as a request, one step per await
    request,        \* GitCommitDetailParams of the request
    dpc,            \* position of the request: the await it is suspended at
    diff,           \* the local diff: Undefined or the fetched text
    detailResult,   \* the resolved GitCommitDetail, or Null
    detailError,    \* the rejection's Error, or Null
    gitCalls,       \* the gateway calls issued so far, each with its outcome
    warnings,       \* the messages given to logger.warn, in order
    \* two calls in flight: the call that is not running
    suspended       \* the locals of the call waiting at its await, or Null

parserVars == <<blameOutput, lines, i, current, blameLines, ppc>>
blameVars == <<params, bpc, blameResult, blameError, calls>>
changeVars == <<nameStatusOut, numstatOut, cpc, ci, pathToChange, totals>>
headerVars == <<headerInfo, hi, headerFields, hpc>>
patchVars == <<patchSource, si, currentPatch, buffer, filePatches, pathToPatch, cfList, spc>>
requestVars == <<request, dpc, diff, detailResult, detailError, gitCalls, warnings>>
detailVars == <<headerVars, patchVars, requestVars>>
vars == <<parserVars, blameVars, changeVars, detailVars, suspended>>

----------------------------------------------------------------------------
(* Bounds of the model. *)

\* the most header groups in a text given to the parser specification
MaxGroups == 2
\* line numbers written in blame headers range over 1..MaxLineNo
MaxLineNo == 3
\* the most header groups in a blame text returned to getBlameInfo
MaxBlameGroups == 3
\* the most lines of a name-status report
MaxStatusLines == 2
\* the most lines of a numstat report
MaxNumstatLines == 2

----------------------------------------------------------------------------
(* JavaScript values and string primitives. *)

Null == [null |-> TRUE]
Undefined == <<"undefined">>
NaN == <<"NaN">>
Num(n) == <<"number", n>>
IsNumber(v) == Len(v) = 2 /\ v[1] = "number"

Tab == "\t"
NL == "\n"
Space == " "

Digit == {"0", "1", "2", "3", "4", "5", "6", "7", "8", "9"}
HexChar == Digit \cup {"a", "b", "c", "d", "e", "f", "A", "B", "C", "D", "E", "F"}
\* the characters \s matches that can occur inside one line
WhiteSpace == {Space, Tab, "\r", "\f"}

DigitVal(c) ==
    CASE c = "0" -> 0 [] c = "1" -> 1 [] c = "2" -> 2 [] c = "3" -> 3
      [] c = "4" -> 4 [] c = "5" -> 5 [] c = "6" -> 6 [] c = "7" -> 7
      [] c = "8" -> 8 [] c = "9" -> 9

\* s.startsWith(p)
StartsWith(s, p) == Len(s) >= Len(p) /\ SubSeq(s, 1, Len(p)) = p

\* s.substring(n) and s.slice(n) for 0 <= n: the characters from 0-based index n on
Substring(s, n) == SubSeq(s, n + 1, Len(s))

\* the length of the longest run of characters of Class that starts at position pos
RECURSIVE RunLen(_, _, _)
RunLen(s, pos, Class) ==
    IF pos <= Len(s) /\ s[pos] \in Class THEN 1 + RunLen(s, pos + 1, Class) ELSE 0

\* the first position >= pos at which c occurs in s, or 0
RECURSIVE IndexOf(_, _, _)
IndexOf(s, c, pos) ==
    IF pos > Len(s) THEN 0
    ELSE IF s[pos] = c THEN pos
    ELSE IndexOf(s, c, pos + 1)

\* s.split(sep) for a one-character separator: always at least one piece
RECURSIVE Split(_, _)
Split(s, sep) ==
    LET k == IndexOf(s, sep, 1)
    IN  IF k = 0 THEN <<s>>
        ELSE <<SubSeq(s, 1, k - 1)>> \o Split(SubSeq(s, k + 1, Len(s)), sep)

\* parts.join(sep)
RECURSIVE Join(_, _)
Join(parts, sep) ==
    IF Len(parts) = 0 THEN <<>>
    ELSE IF Len(parts) = 1 THEN parts[1]
    ELSE parts[1] \o <<sep>> \o Join(Tail(parts), sep)

\* the value of a run of decimal digits, most significant first
RECURSIVE DecimalValue(_)
DecimalValue(ds) ==
    IF Len(ds) = 0 THEN 0
    ELSE 10 * DecimalValue(SubSeq(ds, 1, Len(ds) - 1)) + DigitVal(ds[Len(ds)])

\* parseInt(s, 10): leading white space, an optional sign, then the longest run
\* of digits; NaN when there is no digit
ParseInt(s) ==
    LET w == RunLen(s, 1, WhiteSpace)
        sg == IF w + 1 <= Len(s) /\ s[w + 1] \in {"-", "+"} THEN 1 ELSE 0
        d == RunLen(s, w + sg + 1, Digit)
        v == DecimalValue(SubSeq(s, w + sg + 1, w + sg + d))
    IN  IF d = 0 THEN NaN
        ELSE IF sg = 1 /\ s[w + 1] = "-" THEN Num(0 - v)
        ELSE Num(v)

----------------------------------------------------------------------------
(* BlameParser.parseBlameOutput *)

FieldNames ==
    {"line", "hash", "author", "authorEmail", "authorTime", "authorTimeZone",
     "committer", "committerEmail", "committerTime", "committerTimeZone",
     "summary", "previousHash", "previousFilename", "filename", "content"}

NoMatch == [match |-> FALSE]

\* raw.match(/^([0-9a-f]{8,40})\s+\d+\s+(\d+)\s+\d+/i): the two captures, or NoMatch.
\* Each run is followed by a character outside its class, so the greedy match
\* is the only one.
headerMatch(raw) ==
    LET h == RunLen(raw, 1, HexChar)
        w1 == RunLen(raw, h + 1, WhiteSpace)
        d1 == RunLen(raw, h + w1 + 1, Digit)
        w2 == RunLen(raw, h + w1 + d1 + 1, WhiteSpace)
        d2 == RunLen(raw, h + w1 + d1 + w2 + 1, Digit)
        w3 == RunLen(raw, h + w1 + d1 + w2 + d2 + 1, WhiteSpace)
        d3 == RunLen(raw, h + w1 + d1 + w2 + d2 + w3 + 1, Digit)
    IN  IF /\ h >= 8 /\ h <= 40
           /\ w1 >= 1 /\ d1 >= 1
           /\ w2 >= 1 /\ d2 >= 1
           /\ w3 >= 1 /\ d3 >= 1
        THEN [match |-> TRUE,
              hash |-> SubSeq(raw, 1, h),
              line |-> SubSeq(raw, h + w1 + d1 + w2 + 1, h + w1 + d1 + w2 + d2)]
        ELSE NoMatch

\* current = { hash: headerMatch[1], line: parseInt(headerMatch[2], 10) }
NewAccumulator(m) ==
    [f \in FieldNames |->
        IF f = "hash" THEN m.hash
        ELSE IF f = "line" THEN ParseInt(m.line)
        ELSE Undefined]

\* the metadata prefixes in the order the code tests them
MetaPrefixes ==
    <<
        [prefix |-> <<"a", "u", "t", "h", "o", "r", " ">>, field |-> "author"],
        [prefix |-> <<"a", "u", "t", "h", "o", "r", "-", "m", "a", "i", "l", " ">>, field |-> "authorEmail"],
        [prefix |-> <<"a", "u", "t", "h", "o", "r", "-", "t", "i", "m", "e", " ">>, field |-> "authorTime"],
        [prefix |-> <<"a", "u", "t", "h", "o", "r", "-", "t", "z", " ">>, field |-> "authorTimeZone"],
        [prefix |-> <<"c", "o", "m", "m", "i", "t", "t", "e", "r", " ">>, field |-> "committer"],
        [prefix |-> <<"c", "o", "m", "m", "i", "t", "t", "e", "r", "-", "m", "a", "i", "l", " ">>, field |-> "committerEmail"],
        [prefix |-> <<"c", "o", "m", "m", "i", "t", "t", "e", "r", "-", "t", "i", "m", "e", " ">>, field |-> "committerTime"],
        [prefix |-> <<"c", "o", "m", "m", "i", "t", "t", "e", "r", "-", "t", "z", " ">>, field |-> "committerTimeZone"],
        [prefix |-> <<"s", "u", "m", "m", "a", "r", "y", " ">>, field |-> "summary"],
        [prefix |-> <<"p", "r", "e", "v", "i", "o", "u", "s", " ">>, field |-> "previous"],
        [prefix |-> <<"f", "i", "l", "e", "n", "a", "m", "e", " ">>, field |-> "filename"]
    >>

\* the first prefix of MetaPrefixes that raw starts with, or 0
MetaIndex(raw) ==
    LET hits == {k \in 1..Len(MetaPrefixes) : StartsWith(raw, MetaPrefixes[k].prefix)}
    IN  IF hits = {} THEN 0 ELSE CHOOSE k \in hits : \A j \in hits : k <= j

\* the previous branch with the empty tokens dropped before the join
SetMetadataCollapsing(cur, raw) ==
    LET e == MetaPrefixes[MetaIndex(raw)]
        rest == Substring(raw, Len(e.prefix))
        prev == Split(rest, Space)
        named == SelectSeq(Tail(prev), LAMBDA t : Len(t) > 0)
    IN  IF e.field = "previous"
        THEN [cur EXCEPT !["previousHash"] = prev[1],
                         !["previousFilename"] = Join(named, Space)]
        ELSE [cur EXCEPT ![e.field] = rest]

\* the assignment one metadata line makes to the accumulator
SetMetadata(cur, raw) ==
    LET e == MetaPrefixes[MetaIndex(raw)]
        rest == Substring(raw, Len(e.prefix))
        prev == Split(rest, Space)
    IN  IF e.field = "previous"
        THEN [cur EXCEPT !["previousHash"] = prev[1],
                         !["previousFilename"] = Join(Tail(prev), Space)]
        ELSE [cur EXCEPT ![e.field] = rest]

\* the loop body without the if (current) guard on the content branch: a
\* content line read while no accumulator is open is pushed as a record
ParseLineEmitsOrphans(st, raw) ==
    IF Len(raw) = 0 THEN st
    ELSE IF headerMatch(raw).match
    THEN [st EXCEPT !.current = NewAccumulator(headerMatch(raw))]
    ELSE IF st.current = Null
    THEN IF StartsWith(raw, <<Tab>>)
         THEN [st EXCEPT !.blameLines =
                  Append(st.blameLines,
                         [f \in FieldNames |->
                            IF f = "content" THEN Substring(raw, 1) ELSE Undefined])]
         ELSE st
    ELSE IF MetaIndex(raw) # 0
    THEN [st EXCEPT !.current = SetMetadata(st.current, raw)]
    ELSE IF StartsWith(raw, <<Tab>>)
    THEN [current |-> Null,
          blameLines |->
              Append(st.blameLines, [st.current EXCEPT !["content"] = Substring(raw, 1)])]
    ELSE st

\* the body of the for loop for one line: st = [current, blameLines]
ParseLine(st, raw) ==
    IF Len(raw) = 0 THEN st
    ELSE IF headerMatch(raw).match
    THEN [st EXCEPT !.current = NewAccumulator(headerMatch(raw))]
    ELSE IF st.current = Null THEN st
    ELSE IF MetaIndex(raw) # 0
    THEN [st EXCEPT !.current = SetMetadata(st.current, raw)]
    ELSE IF StartsWith(raw, <<Tab>>)
    THEN LET done == [st.current EXCEPT !["content"] = Substring(raw, 1)]
         IN  [current |-> Null,
              blameLines |->
                  IF (IsNumber(done["line"]) \/ done["line"] = NaN)
                     /\ done["content"] # Undefined
                  THEN Append(st.blameLines, done)
                  ELSE st.blameLines]
    ELSE st

\* the whole loop over lines[from..]
RECURSIVE ParseFrom(_, _, _)
ParseFrom(st, ls, from) ==
    IF from > Len(ls) THEN st
    ELSE ParseFrom(ParseLine(st, ls[from]), ls, from + 1)

\* parseBlameOutput(blameOutput): the returned array
parseBlameOutput(text) ==
    ParseFrom([current |-> Null, blameLines |-> <<>>], Split(text, NL), 1).blameLines

----------------------------------------------------------------------------
(* Blame texts: what git blame --porcelain --line-porcelain writes.  A group *)
(* is a header line "<hash> <orig> <final> [<num_lines>]" (git writes the    *)
(* fourth field only on the first line of a run of lines of one commit),     *)
(* metadata lines, and the tab-prefixed content line.                        *)

RECURSIVE ToDigits(_)
ToDigits(n) ==
    LET last == CHOOSE c \in Digit : DigitVal(c) = n % 10
    IN  IF n < 10 THEN <<last>> ELSE ToDigits(n \div 10) \o <<last>>

HashOf(variant) ==
    IF variant = 1
    THEN <<"a", "a", "a", "a", "a", "a", "a", "a">>
    ELSE <<"0", "B", "C", "D", "E", "F", "1", "2">>

MetadataOf(variant) ==
    IF variant = 1
    THEN << <<"a", "u", "t", "h", "o", "r", " ", "A", "l">>,
            <<"s", "u", "m", "m", "a", "r", "y", " ", "s">> >>
    ELSE << <<"p", "r", "e", "v", "i", "o", "u", "s", " ", "b", "b", "b", "b", "b", "b", "b", "b", " ", "o", " ", "p">>,
            <<"f", "i", "l", "e", "n", "a", "m", "e", " ", "p">> >>

\* the second content has a tab of its own and trailing white space
ContentOf(variant) ==
    IF variant = 1 THEN <<Tab, "x">> ELSE <<Tab, Tab, "y", Space>>

HeaderLine(variant, final, fields) ==
    HashOf(variant) \o <<Space>> \o ToDigits(10 + final) \o <<Space>> \o ToDigits(final)
        \o (IF fields = 4 THEN <<Space, "1">> ELSE <<>>)

\* the lines of one group
Group(variant, final, fields, complete) ==
    <<HeaderLine(variant, final, fields)>> \o MetadataOf(variant)
        \o (IF complete THEN <<ContentOf(variant)>> ELSE <<>>)

Groups ==
    {Group(v, n, f, c) : v \in {1, 2}, n \in 1..MaxLineNo, f \in {3, 4}, c \in BOOLEAN}

\* the line sequences made of at most n groups of G
RECURSIVE GroupSeqs(_, _)
GroupSeqs(G, n) ==
    IF n = 0 THEN {<<>>}
    ELSE {<<>>} \cup {g \o t : g \in G, t \in GroupSeqs(G, n - 1)}

\* a text: its lines, each ended by a newline
TextOf(ls) == IF Len(ls) = 0 THEN <<>> ELSE Join(ls, NL) \o <<NL>>

ParserTexts == {TextOf(ls) : ls \in GroupSeqs(Groups, MaxGroups)}

----------------------------------------------------------------------------
(* SpecParser: parseBlameOutput on every text of ParserTexts, line by line. *)

ParserIdle ==
    /\ blameOutput = <<>> /\ lines = <<>> /\ i = 0
    /\ current = Null /\ blameLines = <<>> /\ ppc = "idle"

BlameIdle ==
    /\ params = Null /\ bpc = "idle" /\ blameResult = Null /\ blameError = Null
    /\ calls = <<>>

ChangeIdle ==
    /\ nameStatusOut = <<>> /\ numstatOut = <<>> /\ cpc = "idle" /\ ci = 0
    /\ pathToChange = <<>> /\ totals = Null

HeaderIdle ==
    /\ headerInfo = <<>> /\ hi = 0 /\ headerFields = Null /\ hpc = "idle"

PatchIdle ==
    /\ patchSource = <<>> /\ si = 0 /\ currentPatch = Null /\ buffer = <<>>
    /\ filePatches = <<>> /\ pathToPatch = <<>> /\ cfList = <<>> /\ spc = "idle"

RequestIdle ==
    /\ request = Null /\ dpc = "idle" /\ diff = Undefined /\ detailResult = Null
    /\ detailError = Null /\ gitCalls = <<>> /\ warnings = <<>>

DetailIdle == HeaderIdle /\ PatchIdle /\ RequestIdle

InitParser ==
    /\ blameOutput \in ParserTexts
    /\ lines = Split(blameOutput, NL)
    /\ i = 1
    /\ current = Null
    /\ blameLines = <<>>
    /\ ppc = "loop"
    /\ BlameIdle /\ ChangeIdle /\ DetailIdle /\ suspended = Null

\* one iteration of the for loop
ScanLine ==
    /\ ppc = "loop"
    /\ i <= Len(lines)
    /\ LET st == ParseLine([current |-> current, blameLines |-> blameLines], lines[i])
       IN  /\ current' = st.current
           /\ blameLines' = st.blameLines
    /\ i' = i + 1
    /\ UNCHANGED <<suspended, blameOutput, lines, ppc, blameVars, changeVars, detailVars>>

\* return blameLines
ParserReturn ==
    /\ ppc = "loop"
    /\ i > Len(lines)
    /\ ppc' = "returned"
    /\ UNCHANGED <<suspended, blameOutput, lines, i, current, blameLines, blameVars, changeVars, detailVars>>

NextParser == ScanLine \/ ParserReturn

SpecParser == InitParser /\ [][NextParser]_vars

----------------------------------------------------------------------------
(* GitService.getBlameInfo *)

\* A path is the sequence of its segments; an absolute path starts with "/".
Cwd == <<"/", "srv">>

\* path.resolve(filePath)
Resolve(p) == IF Len(p) > 0 /\ p[1] = "/" THEN p ELSE Cwd \o p

\* path.dirname(absolutePath)
Dirname(p) == SubSeq(p, 1, Len(p) - 1)

\* the file system and the repositories the requests run against
ExistingFiles ==
    {<<"/", "repo", "a.ts">>, <<"/", "tmp", "b.ts">>, <<"/", "srv", "c.ts">>,
     <<"/", "work", "d.ts">>}
RepoDirs == {<<"/", "repo">>, <<"/", "work">>}

\* existsSync(absolutePath)
ExistsSync(p) == p \in ExistingFiles

\* a gateway that takes every directory for a repository
IsRepoAlways(baseDir) == TRUE

\* what git.checkIsRepo() resolves with on a gateway scoped to baseDir
IsRepo(baseDir) == baseDir \in RepoDirs

\* !v that is true of an absent value only
IsUndefined(v) == v = Undefined

\* !v for a string or an optional number
Falsy(v) == v = Undefined \/ v = <<>> \/ v = Num(0) \/ v = NaN

\* v || d
OrElse(v, d) == IF Falsy(v) THEN d ELSE v

\* a >= b and a <= b on JavaScript numbers (false when either is NaN)
Geq(a, b) == IsNumber(a) /\ IsNumber(b) /\ a[2] >= b[2]
Leq(a, b) == IsNumber(a) /\ IsNumber(b) /\ a[2] <= b[2]

\* const startLine = lineFrom || 1
StartLine(lineFrom) == OrElse(lineFrom, Num(1))

\* const endLine = lineTo || blameLines.length
EndLine(lineTo, parsed) == OrElse(lineTo, Num(Len(parsed)))

\* InRange with the upper bound exclusive (an off-by-one slip)
InRangeExclusive(rec, startLine, endLine) ==
    Geq(rec["line"], startLine) /\ IsNumber(endLine) /\ rec["line"][2] < endLine[2]

\* InRange with || for && (either bound suffices)
InRangeEither(rec, startLine, endLine) ==
    Geq(rec["line"], startLine) \/ Leq(rec["line"], endLine)

\* line => line.line >= startLine && line.line <= endLine
InRange(rec, startLine, endLine) ==
    Geq(rec["line"], startLine) /\ Leq(rec["line"], endLine)

\* parsed.filter(line => InRange(line, startLine, endLine))
RECURSIVE Filter(_, _, _)
Filter(parsed, startLine, endLine) ==
    IF Len(parsed) = 0 THEN <<>>
    ELSE (IF InRange(Head(parsed), startLine, endLine) THEN <<Head(parsed)>> ELSE <<>>)
            \o Filter(Tail(parsed), startLine, endLine)

\* filteredLines
FilteredLines(parsed, lineFrom, lineTo) ==
    IF lineFrom # Undefined \/ lineTo # Undefined
    THEN Filter(parsed, StartLine(lineFrom), EndLine(lineTo, parsed))
    ELSE parsed

\* the object getBlameInfo returns
BlameResultOf(absolutePath, parsed, lineFrom, lineTo) ==
    LET filteredLines == FilteredLines(parsed, lineFrom, lineTo)
    IN  [filePath |-> absolutePath,
         totalLines |-> Len(parsed),
         requestedLines |-> Len(filteredLines),
         lineRange |-> [from |-> OrElse(lineFrom, Num(1)),
                        to |-> OrElse(lineTo, Num(Len(parsed)))],
         blame |-> filteredLines]

Error(msg) == [message |-> msg]

\* a gateway scoped to the working directory of the process
BaseDirAmbient(filePath) == Cwd

\* dirname(resolve(filePath)): the directory the request's gateway is scoped to
BaseDir(filePath) == Dirname(Resolve(filePath))

\* a gateway call is logged, with the directory of the gateway it is issued
\* on, when it is issued, and settled when it returns
Issue(log, baseDir, op) ==
    Append(log, [op |-> op, outcome |-> "pending", baseDir |-> baseDir])
\* the log when the next call is issued without awaiting the last one
SettleNotAwaited(log, outcome) == log
Settle(log, outcome) == [log EXCEPT ![Len(log)].outcome = outcome]

\* the requests: file paths and optional line bounds (1-based, >= 1)
FilePaths ==
    {Undefined, <<>>, <<"/", "repo", "a.ts">>, <<"/", "repo", "gone.ts">>,
     <<"/", "tmp", "b.ts">>, <<"c.ts">>}
LineBounds == {Undefined} \cup {Num(n) : n \in 1..(MaxLineNo + 1)}

\* the blame texts the gateway returns: complete groups of one commit, headers
\* with and without the fourth field, any final-line numbers
BlameGroups == {Group(1, n, f, TRUE) : n \in 1..MaxLineNo, f \in {3, 4}}
BlameTexts == {TextOf(ls) : ls \in GroupSeqs(BlameGroups, MaxBlameGroups)}

\* this.parser.parseBlameOutput(blameResult), for each text of BlameTexts
ParsedBlame == [text \in BlameTexts |-> parseBlameOutput(text)]

InitBlame ==
    /\ params \in [filePath : FilePaths, lineFrom : LineBounds, lineTo : LineBounds]
    /\ bpc = "start"
    /\ blameResult = Null
    /\ blameError = Null
    /\ calls = <<>>
    /\ ParserIdle /\ ChangeIdle /\ DetailIdle /\ suspended = Null

\* up to the first await: validation, then git.checkIsRepo() is issued
BlameValidate ==
    /\ bpc = "start"
    /\ IF Falsy(params.filePath)
       THEN /\ blameError' = Error("File path is required")
            /\ bpc' = "done"
            /\ UNCHANGED calls
       ELSE IF ~ExistsSync(Resolve(params.filePath))
       THEN /\ blameError' = Error("File does not exist")
            /\ bpc' = "done"
            /\ UNCHANGED calls
       ELSE /\ calls' = Issue(calls, BaseDir(params.filePath), "checkIsRepo")
            /\ bpc' = "checkIsRepo"
            /\ UNCHANGED blameError
    /\ UNCHANGED <<suspended, params, blameResult, parserVars, changeVars, detailVars>>

\* git.checkIsRepo() resolves; when true, git.raw(['blame', ...]) is issued
CheckIsRepoReturns ==
    /\ bpc = "checkIsRepo"
    /\ IF IsRepo(BaseDir(params.filePath))
       THEN /\ calls' = Issue(Settle(calls, "ok"), BaseDir(params.filePath), "raw")
            /\ bpc' = "blame"
            /\ UNCHANGED blameError
       ELSE /\ calls' = Settle(calls, "ok")
            /\ blameError' = Error("Not in a git repository")
            /\ bpc' = "done"
    /\ UNCHANGED <<suspended, params, blameResult, parserVars, changeVars, detailVars>>

\* git.checkIsRepo() rejects: the rejection is the request's
CheckIsRepoFails ==
    /\ bpc = "checkIsRepo"
    /\ calls' = Settle(calls, "failed")
    /\ blameError' = Error("git failed")
    /\ bpc' = "done"
    /\ UNCHANGED <<suspended, params, blameResult, parserVars, changeVars, detailVars>>

\* git.raw resolves with a blame text of Texts: parse, filter and return
RawBlameReturnsFrom(Texts) ==
    /\ bpc = "blame"
    /\ \E text \in Texts :
          LET parsed == ParsedBlame[text]
          IN  /\ blameOutput' = text
              /\ blameLines' = parsed
              /\ blameResult' = BlameResultOf(Resolve(params.filePath), parsed,
                                              params.lineFrom, params.lineTo)
    /\ calls' = Settle(calls, "ok")
    /\ bpc' = "done"
    /\ UNCHANGED <<suspended, params, blameError, lines, i, current, ppc, changeVars, detailVars>>

\* git.raw rejects and the rejection is swallowed: the call ends without error
RawBlameFailsSilently ==
    /\ bpc = "blame"
    /\ calls' = Settle(calls, "failed")
    /\ bpc' = "done"
    /\ UNCHANGED <<suspended, params, blameResult, blameError, parserVars, changeVars, detailVars>>

\* git.raw rejects
RawBlameFails ==
    /\ bpc = "blame"
    /\ calls' = Settle(calls, "failed")
    /\ blameError' = Error("git failed")
    /\ bpc' = "done"
    /\ UNCHANGED <<suspended, params, blameResult, parserVars, changeVars, detailVars>>

\* a step of the request, git.raw answering with a text of Texts
BlameStep(Texts) ==
    \/ BlameValidate
    \/ CheckIsRepoReturns
    \/ CheckIsRepoFails
    \/ RawBlameReturnsFrom(Texts)
    \/ RawBlameFails

NextBlame == BlameStep(BlameTexts)

SpecBlame == InitBlame /\ [][NextBlame]_vars

----------------------------------------------------------------------------
(* GitService.getCommitDetail: changed files from name-status and numstat. *)

\* s.trim()
Trim(s) ==
    LET ws == WhiteSpace \cup {NL}
        lead == RunLen(s, 1, ws)
        RECURSIVE TrailLen(_)
        TrailLen(k) == IF k >= 1 /\ s[k] \in ws THEN 1 + TrailLen(k - 1) ELSE 0
    IN  IF lead = Len(s) THEN <<>> ELSE SubSeq(s, lead + 1, Len(s) - TrailLen(Len(s)))

\* s.charAt(0)
CharAt0(s) == IF Len(s) = 0 THEN <<>> ELSE <<s[1]>>

\* parts[k] for a 0-based k: undefined past the end
Part(parts, k) == IF k + 1 <= Len(parts) THEN parts[k + 1] ELSE Undefined

\* the Map pathToChange is the sequence of its [key, value] entries in
\* insertion order
MapHas(m, key) == \E k \in 1..Len(m) : m[k].key = key
MapGet(m, key) ==
    IF MapHas(m, key)
    THEN m[CHOOSE k \in 1..Len(m) : m[k].key = key].value
    ELSE Undefined

\* a set that never looks the key up: every call adds an entry
MapSetAlwaysAppends(m, key, value) == Append(m, [key |-> key, value |-> value])

\* m.set(key, value): replaces the value of an existing key in place
MapSet(m, key, value) ==
    IF MapHas(m, key)
    THEN [k \in 1..Len(m) |-> IF m[k].key = key THEN [key |-> key, value |-> value] ELSE m[k]]
    ELSE Append(m, [key |-> key, value |-> value])

\* Array.from(pathToChange.values())
MapValues(m) == [k \in 1..Len(m) |-> m[k].value]

\* { status: '', path }
NewChange(path) ==
    [status |-> <<>>, path |-> path, oldPath |-> Undefined,
     insertions |-> Undefined, deletions |-> Undefined]

\* pathToChange.get(path) || { status: '', path }
ExistingOrNew(m, path) == IF MapHas(m, path) THEN MapGet(m, path) ELSE NewChange(path)

\* the name-status body that takes only R for a rename: a copy is read as any
\* other classification
NameStatusLineRenameOnly(m, line) ==
    LET parts == Split(line, Tab)
        status == CharAt0(parts[1])
    IN  IF Len(Trim(line)) = 0 THEN m
        ELSE IF Len(parts) < 2 THEN m
        ELSE IF status = <<"R">>
        THEN LET oldPath == parts[2]
                 newPath == OrElse(Part(parts, 2), parts[2])
                 existing == ExistingOrNew(m, newPath)
             IN  MapSet(m, newPath, [existing EXCEPT !.status = status, !.oldPath = oldPath])
        ELSE LET existing == ExistingOrNew(m, parts[2])
             IN  MapSet(m, parts[2], [existing EXCEPT !.status = status])

\* the body of the name-status loop for one line
NameStatusLine(m, line) ==
    LET parts == Split(line, Tab)
        status == CharAt0(parts[1])
    IN  IF Len(Trim(line)) = 0 THEN m
        ELSE IF Len(parts) < 2 THEN m
        ELSE IF status = <<"R">> \/ status = <<"C">>
        THEN LET oldPath == parts[2]
                 newPath == OrElse(Part(parts, 2), parts[2])
                 existing == ExistingOrNew(m, newPath)
             IN  MapSet(m, newPath, [existing EXCEPT !.status = status, !.oldPath = oldPath])
        ELSE LET existing == ExistingOrNew(m, parts[2])
             IN  MapSet(m, parts[2], [existing EXCEPT !.status = status])

\* the count without the test for the sentinel
CountOfParsed(str) == ParseInt(str)

\* insStr === '-' ? undefined : parseInt(insStr)
CountOf(str) == IF str = <<"-">> THEN Undefined ELSE ParseInt(str)

\* the numstat body with the rename case keyed by the old path
NumstatLineKeyedByOldPath(m, line) ==
    LET parts == Split(line, Tab)
        path == parts[3]
        oldPath == IF Len(parts) >= 4 THEN parts[3] ELSE Undefined
        existing == ExistingOrNew(m, path)
        counted == [existing EXCEPT !.insertions = CountOf(parts[1]),
                                    !.deletions = CountOf(parts[2])]
    IN  IF Len(Trim(line)) = 0 THEN m
        ELSE IF Len(parts) < 3 THEN m
        ELSE MapSet(m, path,
                    IF ~Falsy(oldPath) /\ Falsy(existing.oldPath)
                    THEN [counted EXCEPT !.oldPath = oldPath]
                    ELSE counted)

\* the numstat body without the !existing.oldPath test
NumstatLineOverwritesOldPath(m, line) ==
    LET parts == Split(line, Tab)
        path == IF Len(parts) >= 4 THEN parts[4] ELSE parts[3]
        oldPath == IF Len(parts) >= 4 THEN parts[3] ELSE Undefined
        existing == ExistingOrNew(m, path)
        counted == [existing EXCEPT !.insertions = CountOf(parts[1]),
                                    !.deletions = CountOf(parts[2])]
    IN  IF Len(Trim(line)) = 0 THEN m
        ELSE IF Len(parts) < 3 THEN m
        ELSE MapSet(m, path,
                    IF ~Falsy(oldPath)
                    THEN [counted EXCEPT !.oldPath = oldPath]
                    ELSE counted)

\* the body of the numstat loop for one line
NumstatLine(m, line) ==
    LET parts == Split(line, Tab)
        path == IF Len(parts) >= 4 THEN parts[4] ELSE parts[3]
        oldPath == IF Len(parts) >= 4 THEN parts[3] ELSE Undefined
        existing == ExistingOrNew(m, path)
        counted == [existing EXCEPT !.insertions = CountOf(parts[1]),
                                    !.deletions = CountOf(parts[2])]
    IN  IF Len(Trim(line)) = 0 THEN m
        ELSE IF Len(parts) < 3 THEN m
        ELSE MapSet(m, path,
                    IF ~Falsy(oldPath) /\ Falsy(existing.oldPath)
                    THEN [counted EXCEPT !.oldPath = oldPath]
                    ELSE counted)

\* a + b on JavaScript numbers: NaN when either is NaN or undefined
Plus(a, b) == IF IsNumber(a) /\ IsNumber(b) THEN Num(a[2] + b[2]) ELSE NaN

\* the sum step without the typeof test
AddCountUnchecked(sum, v) == Plus(sum, v)

\* if (typeof v === 'number') sum += v
AddCount(sum, v) == IF IsNumber(v) \/ v = NaN THEN Plus(sum, v) ELSE sum

RECURSIVE SumCounts(_, _, _)
SumCounts(files, field, sum) ==
    IF Len(files) = 0 THEN sum
    ELSE SumCounts(Tail(files), field, AddCount(sum, Head(files)[field]))

\* filesChanged, insertions, deletions
Aggregate(changedFiles) ==
    [filesChanged |-> Len(changedFiles),
     insertions |-> SumCounts(changedFiles, "insertions", Num(0)),
     deletions |-> SumCounts(changedFiles, "deletions", Num(0))]

\* the reports git show writes: fields separated by tabs, paths p, q, o
StatusLines ==
    { <<"M", Tab, "p">>,
      <<"R", "1", "0", "0", Tab, "o", Tab, "p">>,
      <<"R", "1", "0", "0", Tab, "q">>,
      <<"C", "7", "5", Tab, "o", Tab, "q">>,
      <<"M">> }

NumstatLines ==
    { <<"3", Tab, "1", Tab, "p">>,
      <<"-", Tab, "-", Tab, "q">>,
      <<"1", "2", Tab, "0", Tab, "o", Tab, "p">>,
      <<"3", Tab, "1", Tab, "q", Tab, "p">>,
      <<"3", Tab, "1">> }

\* the sequences of at most n lines of L
RECURSIVE LineSeqs(_, _)
LineSeqs(L, n) ==
    IF n = 0 THEN {<<>>}
    ELSE {<<>>} \cup {<<l>> \o t : l \in L, t \in LineSeqs(L, n - 1)}

StatusTexts == {TextOf(ls) : ls \in LineSeqs(StatusLines, MaxStatusLines)}
NumstatTexts == {TextOf(ls) : ls \in LineSeqs(NumstatLines, MaxNumstatLines)}

\* nameStatusOut.split('\n') and numstatOut.split('\n')
StatusLinesRead == Split(nameStatusOut, NL)
NumstatLinesRead == Split(numstatOut, NL)

\* changedFiles
ChangedFiles == MapValues(pathToChange)

InitChanges ==
    /\ nameStatusOut \in StatusTexts
    /\ numstatOut \in NumstatTexts
    /\ cpc = "status"
    /\ ci = 1
    /\ pathToChange = <<>>
    /\ totals = Null
    /\ ParserIdle /\ BlameIdle /\ DetailIdle /\ suspended = Null

\* one iteration of the name-status loop
ReadStatusLine ==
    /\ cpc = "status"
    /\ ci <= Len(StatusLinesRead)
    /\ pathToChange' = NameStatusLine(pathToChange, StatusLinesRead[ci])
    /\ ci' = ci + 1
    /\ UNCHANGED <<suspended, nameStatusOut, numstatOut, cpc, totals, parserVars, blameVars, detailVars>>

\* the name-status loop ends, the numstat loop begins
StatusRead ==
    /\ cpc = "status"
    /\ ci > Len(StatusLinesRead)
    /\ cpc' = "numstat"
    /\ ci' = 1
    /\ UNCHANGED <<suspended, nameStatusOut, numstatOut, pathToChange, totals, parserVars, blameVars, detailVars>>

\* one iteration of the numstat loop
ReadNumstatLine ==
    /\ cpc = "numstat"
    /\ ci <= Len(NumstatLinesRead)
    /\ pathToChange' = NumstatLine(pathToChange, NumstatLinesRead[ci])
    /\ ci' = ci + 1
    /\ UNCHANGED <<suspended, nameStatusOut, numstatOut, cpc, totals, parserVars, blameVars, detailVars>>

\* the numstat loop ends: changedFiles and the three totals
AggregateChanges ==
    /\ cpc = "numstat"
    /\ ci > Len(NumstatLinesRead)
    /\ totals' = Aggregate(ChangedFiles)
    /\ cpc' = "done"
    /\ UNCHANGED <<suspended, nameStatusOut, numstatOut, ci, pathToChange, parserVars, blameVars, detailVars>>

NextChanges ==
    \/ ReadStatusLine
    \/ StatusRead
    \/ ReadNumstatLine
    \/ AggregateChanges

SpecChanges == InitChanges /\ [][NextChanges]_vars

----------------------------------------------------------------------------
(* The blame format as the specification words it, for stating the claims. *)

\* the lengths of hash, gap, first integer, gap, second integer of a header line
HeaderRuns(l) ==
    LET h == RunLen(l, 1, HexChar)
        w1 == RunLen(l, h + 1, WhiteSpace)
        d1 == RunLen(l, h + w1 + 1, Digit)
        w2 == RunLen(l, h + w1 + d1 + 1, WhiteSpace)
        d2 == RunLen(l, h + w1 + d1 + w2 + 1, Digit)
    IN  [h |-> h, w1 |-> w1, d1 |-> d1, w2 |-> w2, d2 |-> d2]

\* hex hash (8..40) + white space + integer + white space + integer + optional
\* trailing integer
IsHeaderLine(l) ==
    LET r == HeaderRuns(l)
        used == r.h + r.w1 + r.d1 + r.w2 + r.d2
        w3 == RunLen(l, used + 1, WhiteSpace)
        d3 == RunLen(l, used + w3 + 1, Digit)
    IN  /\ r.h >= 8 /\ r.h <= 40 /\ r.w1 >= 1 /\ r.d1 >= 1 /\ r.w2 >= 1 /\ r.d2 >= 1
        /\ \/ used = Len(l)
           \/ w3 >= 1 /\ d3 >= 1 /\ used + w3 + d3 = Len(l)

HeaderHash(l) == SubSeq(l, 1, HeaderRuns(l).h)

\* the final-line number: the third field
HeaderFinalLine(l) ==
    LET r == HeaderRuns(l)
    IN  DecimalValue(SubSeq(l, r.h + r.w1 + r.d1 + r.w2 + 1, r.h + r.w1 + r.d1 + r.w2 + r.d2))

HasFourFields(l) == IsHeaderLine(l) /\ HeaderRuns(l).h + HeaderRuns(l).w1
                        + HeaderRuns(l).d1 + HeaderRuns(l).w2 + HeaderRuns(l).d2 < Len(l)

IsMetadataLine(l) == \E k \in 1..Len(MetaPrefixes) : StartsWith(l, MetaPrefixes[k].prefix)

IsContentLine(l) == Len(l) >= 1 /\ l[1] = Tab

\* ls[k..] is made of complete groups, then (when open) one group without content
RECURSIVE GroupsFrom(_, _, _, _)
GroupsFrom(ls, k, inGroup, openEnd) ==
    IF k > Len(ls) THEN inGroup = openEnd
    ELSE IF Len(ls[k]) = 0 THEN k = Len(ls) /\ inGroup = openEnd
    ELSE IF IsHeaderLine(ls[k]) THEN ~inGroup /\ GroupsFrom(ls, k + 1, TRUE, openEnd)
    ELSE IF IsMetadataLine(ls[k]) THEN inGroup /\ GroupsFrom(ls, k + 1, TRUE, openEnd)
    ELSE IF IsContentLine(ls[k]) THEN inGroup /\ GroupsFrom(ls, k + 1, FALSE, openEnd)
    ELSE FALSE

\* the text is N complete groups and nothing else
CompleteGroupsOnly(ls) == GroupsFrom(ls, 1, FALSE, FALSE)

\* the text is complete groups followed by one last group that has no content line
LastGroupLacksContent(ls) == GroupsFrom(ls, 1, FALSE, TRUE)

HeadersOf(ls) == SelectSeq(ls, IsHeaderLine)
ContentsOf(ls) == SelectSeq(ls, IsContentLine)

\* the k-th record is the k-th group's: its header's hash and final line, and its
\* content line without the first tab
RecordMatchesGroup(rec, header, content) ==
    /\ rec["hash"] = HeaderHash(header)
    /\ rec["line"] = Num(HeaderFinalLine(header))
    /\ rec["content"] = Tail(content)

RecordsMatchGroups(recs, ls) ==
    /\ Len(recs) = Len(HeadersOf(ls))
    /\ \A k \in 1..Len(recs) :
          RecordMatchesGroup(recs[k], HeadersOf(ls)[k], ContentsOf(ls)[k])

----------------------------------------------------------------------------
(* Claims C1..C3: the parser. *)

\* C1: for every blame text made of N complete groups (header line, metadata
\* lines, one tab-prefixed content line) the parser returns exactly N records,
\* in the order of the headers, each with its content line minus the first tab.
\* Stated as the claim states it; the code violates it (see C2).
C1_CompleteGroupsYieldRecords ==
    (ppc = "returned" /\ CompleteGroupsOnly(lines))
        => RecordsMatchGroups(blameLines, lines)

\* What the code does guarantee: the same, for groups whose headers all carry
\* the fourth field.
C1_FourFieldGroupsYieldRecords ==
    (/\ ppc = "returned" /\ CompleteGroupsOnly(lines)
     /\ \A k \in 1..Len(HeadersOf(lines)) : HasFourFields(HeadersOf(lines)[k]))
        => RecordsMatchGroups(blameLines, lines)

\* C2: a line <hex hash> <integer> <integer>, with or without a fourth integer,
\* is recognized as a header: once it is read, the accumulator is open with the
\* line's first field as hash and its third field as line number.
C2_HeaderStartsAccumulator ==
    (ppc = "loop" /\ i > 1 /\ IsHeaderLine(lines[i - 1]))
        => /\ current # Null
           /\ current["hash"] = HeaderHash(lines[i - 1])
           /\ current["line"] = Num(HeaderFinalLine(lines[i - 1]))

\* What the code does guarantee: the same for a header with all four fields.
C2_FourFieldHeaderStartsAccumulator ==
    (ppc = "loop" /\ i > 1 /\ HasFourFields(lines[i - 1]))
        => /\ current # Null
           /\ current["hash"] = HeaderHash(lines[i - 1])
           /\ current["line"] = Num(HeaderFinalLine(lines[i - 1]))

\* C3: a text of N headers of which only the last lacks its content line yields
\* exactly N-1 records.
C3_TrailingGroupDropped ==
    (ppc = "returned" /\ LastGroupLacksContent(lines))
        => Len(blameLines) = Len(HeadersOf(lines)) - 1

\* What the code does guarantee: the same when the complete groups' headers
\* carry the fourth field.
C3_TrailingGroupDroppedFourFields ==
    (/\ ppc = "returned" /\ LastGroupLacksContent(lines)
     /\ \A k \in 1..(Len(HeadersOf(lines)) - 1) : HasFourFields(HeadersOf(lines)[k]))
        => Len(blameLines) = Len(HeadersOf(lines)) - 1

----------------------------------------------------------------------------
(* Claims C4..C6: the line-range filter of getBlameInfo. *)

\* git.raw returned a blame text, so the request reached the filter
BlameFetched ==
    /\ bpc = "done" /\ Len(calls) = 2
    /\ calls[2].op = "raw" /\ calls[2].outcome = "ok"

LineOf(rec) == rec["line"][2]

\* from <= l.lineNumber <= to for the bounds of the request that are given
AtOrAfterFrom(rec) == params.lineFrom = Undefined \/ params.lineFrom[2] <= LineOf(rec)
AtOrBeforeTo(rec) == params.lineTo = Undefined \/ LineOf(rec) <= params.lineTo[2]
InRequestedRange(rec) == AtOrAfterFrom(rec) /\ AtOrBeforeTo(rec)

\* the largest line number among recs, 0 when there is none
MaxLineOf(recs) ==
    IF Len(recs) = 0 THEN 0
    ELSE CHOOSE m \in {LineOf(recs[k]) : k \in 1..Len(recs)} :
            \A k \in 1..Len(recs) : LineOf(recs[k]) <= m

\* C4: for every parsed sequence and every pair of bounds from, to, the blame
\* list returned is exactly the records with from <= lineNumber <= to, in their
\* original order, none added, dropped or duplicated.
C4_FilterExact ==
    (BlameFetched /\ params.lineFrom # Undefined /\ params.lineTo # Undefined)
        => /\ blameError = Null
           /\ blameResult # Null
           /\ blameResult.blame = SelectSeq(blameLines, InRequestedRange)

\* C4's case: both bounds given, some records kept in order and some dropped
C4_Witness ==
    /\ BlameFetched /\ params.lineFrom # Undefined /\ params.lineTo # Undefined
    /\ blameResult # Null
    /\ Len(blameResult.blame) = 2
    /\ Len(blameLines) = 3
    /\ LineOf(blameResult.blame[1]) > LineOf(blameResult.blame[2])

\* C5: with lineFrom given and lineTo missing the effective upper bound is the
\* largest line number present (0 for empty input), so every record with
\* lineNumber >= lineFrom is returned; with lineFrom missing the lower bound is 1.
\* Stated as the claim states it; the code violates it.
C5_DefaultBounds ==
    (BlameFetched /\ blameResult # Null)
        => /\ (params.lineFrom # Undefined /\ params.lineTo = Undefined)
                => /\ blameResult.lineRange.to = Num(MaxLineOf(blameLines))
                   /\ blameResult.blame = SelectSeq(blameLines, AtOrAfterFrom)
           /\ params.lineFrom = Undefined => blameResult.lineRange.from = Num(1)

\* What the code does: the default upper bound is the number of parsed records.
C5_DefaultUpperIsRecordCount ==
    (BlameFetched /\ blameResult # Null /\ params.lineTo = Undefined)
        => /\ blameResult.lineRange.to = Num(Len(blameLines))
           /\ params.lineFrom # Undefined
                => \A k \in 1..Len(blameLines) :
                      (\E j \in 1..Len(blameResult.blame) : blameResult.blame[j] = blameLines[k])
                          <=> (/\ params.lineFrom[2] <= LineOf(blameLines[k])
                               /\ LineOf(blameLines[k]) <= Len(blameLines))

\* no parsed record lies within the requested bounds
RangeOutside == \A k \in 1..Len(blameLines) : ~InRequestedRange(blameLines[k])

C6_WitnessInverted ==
    /\ BlameFetched /\ RangeOutside
    /\ params.lineFrom # Undefined /\ params.lineTo # Undefined
    /\ params.lineFrom[2] > params.lineTo[2]
    /\ \E k \in 1..Len(blameLines) : LineOf(blameLines[k]) = params.lineFrom[2]

----------------------------------------------------------------------------
(* Claims C7..C10: changed files and totals of getCommitDetail. *)

Paths == {<<"p">>, <<"q">>, <<"o">>}

\* the sum of the numeric values of field over files
RECURSIVE NumericSum(_, _)
NumericSum(files, field) ==
    IF Len(files) = 0 THEN 0
    ELSE (IF IsNumber(Head(files)[field]) THEN Head(files)[field][2] ELSE 0)
            + NumericSum(Tail(files), field)

\* C7: filesChanged is the number of entries of changedFiles; insertions and
\* deletions are the sums over exactly the entries that carry a number; a binary
\* entry counts in filesChanged and adds 0 to both sums.
C7_Totals ==
    cpc = "done"
        => /\ totals.filesChanged = Len(ChangedFiles)
           /\ totals.insertions = Num(NumericSum(ChangedFiles, "insertions"))
           /\ totals.deletions = Num(NumericSum(ChangedFiles, "deletions"))

\* C7's case: files {p: +3/-1, q: binary} give 2, 3, 1
C7_Witness ==
    /\ cpc = "done"
    /\ Len(ChangedFiles) = 2
    /\ ChangedFiles[1].insertions = Num(3) /\ ChangedFiles[1].deletions = Num(1)
    /\ ChangedFiles[2].insertions = Undefined /\ ChangedFiles[2].deletions = Undefined
    /\ totals = [filesChanged |-> 2, insertions |-> Num(3), deletions |-> Num(1)]

\* a status record classified rename, old path O, new path P
IsStatusRename(line, O, P) ==
    LET parts == Split(line, Tab)
    IN  Len(parts) = 3 /\ CharAt0(parts[1]) = <<"R">> /\ parts[2] = O /\ parts[3] = P

\* a numstat rename record for the pair (O, P), both counts numeric
IsNumstatRename(line, O, P) ==
    LET parts == Split(line, Tab)
    IN  /\ Len(parts) = 4 /\ parts[3] = O /\ parts[4] = P
        /\ RunLen(parts[1], 1, Digit) = Len(parts[1]) /\ Len(parts[1]) > 0
        /\ RunLen(parts[2], 1, Digit) = Len(parts[2]) /\ Len(parts[2]) > 0

\* the current path a status record names: field 3 for R and C (field 2 when
\* field 3 is absent), field 2 otherwise; no path with fewer than two fields
StatusRecordNames(line, P) ==
    LET parts == Split(line, Tab)
    IN  /\ Len(parts) >= 2
        /\ IF CharAt0(parts[1]) \in {<<"R">>, <<"C">>} /\ Len(parts) >= 3
           THEN parts[3] = P
           ELSE parts[2] = P

\* the last status record naming P is the rename O -> P
StatusSaysRename(O, P) ==
    \E k \in 1..Len(StatusLinesRead) :
        /\ IsStatusRename(StatusLinesRead[k], O, P)
        /\ \A j \in (k + 1)..Len(StatusLinesRead) : ~StatusRecordNames(StatusLinesRead[j], P)

\* the current path a numstat record names: field 4 of the rename form, else
\* field 3; no path with fewer than three fields
NumstatRecordNames(line, P) ==
    LET parts == Split(line, Tab)
    IN  /\ Len(parts) >= 3
        /\ IF Len(parts) >= 4 THEN parts[4] = P ELSE parts[3] = P

\* the current paths named by the status report and by the numstat records
\* read so far
PathsNamedSoFar ==
    {P \in Paths :
        \/ \E k \in 1..Len(StatusLinesRead) : StatusRecordNames(StatusLinesRead[k], P)
        \/ \E k \in 1..(ci - 1) : NumstatRecordNames(NumstatLinesRead[k], P)}

EntriesWithPath(P) == {k \in 1..Len(pathToChange) : pathToChange[k].value.path = P}

\* the numstat record just merged is the rename O -> P that status reported
RenameJustMerged(O, P) ==
    /\ cpc = "numstat" /\ ci > 1
    /\ IsNumstatRename(NumstatLinesRead[ci - 1], O, P)
    /\ StatusSaysRename(O, P)

\* C8: a rename status record (O, P) and a numstat rename record for the same
\* pair are merged into exactly one ChangedFile: path P, oldPath O, status R,
\* both counts set; never two entries (there are as many entries as current
\* paths named).
C8_RenameMergedIntoOneEntry ==
    \A O \in Paths, P \in Paths :
        RenameJustMerged(O, P)
            => /\ Cardinality(EntriesWithPath(P)) = 1
               /\ \A k \in EntriesWithPath(P) :
                    LET e == pathToChange[k].value
                        parts == Split(NumstatLinesRead[ci - 1], Tab)
                    IN  /\ e.oldPath = O
                        /\ e.status = <<"R">>
                        /\ e.insertions = Num(DecimalValue(parts[1]))
                        /\ e.deletions = Num(DecimalValue(parts[2]))
               /\ Len(pathToChange) = Cardinality(PathsNamedSoFar)

\* C8's case: status R100 o -> p, then numstat 12 / 0 for o -> p
C8_Witness ==
    /\ RenameJustMerged(<<"o">>, <<"p">>)
    /\ Len(pathToChange) = 1
    /\ pathToChange[1].value =
          [status |-> <<"R">>, path |-> <<"p">>, oldPath |-> <<"o">>,
           insertions |-> Num(12), deletions |-> Num(0)]

\* C9: no two entries of changedFiles have the same path, whatever the two
\* reports say and however often they name a path.
C9_PathsUnique ==
    \A a, b \in 1..Len(ChangedFiles) :
        a # b => ChangedFiles[a].path # ChangedFiles[b].path

\* the records of the two reports that are long enough to be read
StatusRecords == {k \in 1..Len(StatusLinesRead) : Len(Split(StatusLinesRead[k], Tab)) >= 2}
NumstatRecords == {k \in 1..Len(NumstatLinesRead) : Len(Split(NumstatLinesRead[k], Tab)) >= 3}

\* C9's case: one path named twice by each report ends as one entry
C9_Witness ==
    /\ cpc = "done"
    /\ Cardinality(StatusRecords) = 2 /\ Cardinality(NumstatRecords) = 2
    /\ Len(ChangedFiles) = 1

\* C10: merging a numstat record leaves the status of every entry unchanged and
\* leaves an oldPath that was already set unchanged; it only fills the counts
\* and sets an oldPath that was absent.
C10_NumstatKeepsStatusAndOldPath ==
    [][(cpc = "numstat" /\ cpc' = "numstat")
          => /\ Len(pathToChange') >= Len(pathToChange)
             /\ \A k \in 1..Len(pathToChange) :
                  /\ pathToChange'[k].key = pathToChange[k].key
                  /\ pathToChange'[k].value.path = pathToChange[k].value.path
                  /\ pathToChange'[k].value.status = pathToChange[k].value.status
                  /\ pathToChange[k].value.oldPath # Undefined
                        => pathToChange'[k].value.oldPath = pathToChange[k].value.oldPath
                  /\ pathToChange[k].value.oldPath = Undefined
                        => \/ pathToChange'[k].value.oldPath = Undefined
                           \/ /\ Len(Split(NumstatLinesRead[ci], Tab)) >= 4
                              /\ pathToChange'[k].value.oldPath = Split(NumstatLinesRead[ci], Tab)[3]
      ]_vars

\* C10's case: status set R and oldPath o on p; the numstat record q -> p was
\* merged into it
C10_Witness ==
    /\ cpc = "numstat" /\ ci > 1
    /\ NumstatLinesRead[ci - 1] = <<"3", Tab, "1", Tab, "q", Tab, "p">>
    /\ \E k \in 1..Len(pathToChange) :
          pathToChange[k].value =
              [status |-> <<"R">>, path |-> <<"p">>, oldPath |-> <<"o">>,
               insertions |-> Num(3), deletions |-> Num(1)]

\* C10's other case: status left oldPath absent and numstat fills it
C10_WitnessBackfill ==
    /\ cpc = "numstat" /\ ci > 1
    /\ NumstatLinesRead[ci - 1] = <<"3", Tab, "1", Tab, "q", Tab, "p">>
    /\ \E k \in 1..Len(pathToChange) :
          pathToChange[k].value =
              [status |-> <<"M">>, path |-> <<"p">>, oldPath |-> <<"q">>,
               insertions |-> Num(3), deletions |-> Num(1)]

----------------------------------------------------------------------------
(* GitService.getCommitDetail: per-file patches.  The diff text is split   *)
(* into sections at the "diff --git" header lines, the sections are        *)
(* indexed by path, and each ChangedFile is given the section of its path. *)

\* the most sections in a diff text
MaxSections == 3

\* the characters . does not match
LineTerminator == {NL, "\r"}

DiffGitA == <<"d", "i", "f", "f", " ", "-", "-", "g", "i", "t", " ", "a", "/">>
SepB == <<" ", "b", "/">>

\* line.match(/^diff --git a\/(.+) b\/(.+)$/): the two captures, or NoMatch.
\* The first group is greedy, so the separator " b/" that is taken is the
\* last one that leaves a character on each side.
diffHeaderRegex(line) ==
    IF ~StartsWith(line, DiffGitA) THEN NoMatch
    ELSE LET rest == Substring(line, Len(DiffGitA))
             K == {k \in 2..(Len(rest) - 3) : SubSeq(rest, k, k + 2) = SepB}
         IN  IF K = {} \/ \E j \in 1..Len(rest) : rest[j] \in LineTerminator
             THEN NoMatch
             ELSE LET k == CHOOSE x \in K : \A y \in K : y <= x
                  IN  [match |-> TRUE,
                       aPath |-> SubSeq(rest, 1, k - 1),
                       bPath |-> SubSeq(rest, k + 3, Len(rest))]

\* a flush that closes the section but leaves its lines in the buffer
FlushKeepsBuffer(st) ==
    [current |-> Null,
     buffer |-> st.buffer,
     filePatches |->
        IF st.current # Null
        THEN Append(st.filePatches, [st.current EXCEPT !.patch = Join(st.buffer, NL)])
        ELSE st.filePatches]

\* flush(): close the open section, if any, with its buffered lines joined
flush(st) ==
    [current |-> Null,
     buffer |-> <<>>,
     filePatches |->
        IF st.current # Null
        THEN Append(st.filePatches, [st.current EXCEPT !.patch = Join(st.buffer, NL)])
        ELSE st.filePatches]

\* the body of the splitter's loop for one line
SplitLine(st, line) ==
    LET m == diffHeaderRegex(line)
    IN  IF m.match
        THEN LET f == flush(st)
             IN  [f EXCEPT !.current = [aPath |-> m.aPath, bPath |-> m.bPath, patch |-> <<>>],
                           !.buffer = Append(f.buffer, line)]
        ELSE IF st.current # Null
        THEN [st EXCEPT !.buffer = Append(st.buffer, line)]
        ELSE st

RECURSIVE SplitFrom(_, _, _)
SplitFrom(st, ls, from) ==
    IF from > Len(ls) THEN st ELSE SplitFrom(SplitLine(st, ls[from]), ls, from + 1)

\* the loop over patchSource.split('\n') and the flush that follows it
SplitPatches(text) ==
    flush(SplitFrom([current |-> Null, buffer |-> <<>>, filePatches |-> <<>>],
                    Split(text, NL), 1)).filePatches

\* p.replace(/^a\//, '').replace(/^b\//, '')
stripPrefix(p) ==
    LET q == IF StartsWith(p, <<"a", "/">>) THEN Substring(p, 2) ELSE p
    IN  IF StartsWith(q, <<"b", "/">>) THEN Substring(q, 2) ELSE q

\* the index loop body that leaves a key to the section that set it first
IndexPatchKeepsFirst(m, fp) ==
    LET aKey == stripPrefix(fp.aPath)
        bKey == stripPrefix(fp.bPath)
        withA == IF aKey # <<>> /\ ~MapHas(m, aKey) THEN MapSet(m, aKey, fp.patch) ELSE m
    IN  IF bKey # <<>> /\ ~MapHas(withA, bKey) THEN MapSet(withA, bKey, fp.patch) ELSE withA

\* the body of the index loop for one section
IndexPatch(m, fp) ==
    LET aKey == stripPrefix(fp.aPath)
        bKey == stripPrefix(fp.bPath)
        withA == IF aKey # <<>> THEN MapSet(m, aKey, fp.patch) ELSE m
    IN  IF bKey # <<>> THEN MapSet(withA, bKey, fp.patch) ELSE withA

RECURSIVE IndexFrom(_, _, _)
IndexFrom(m, fps, from) ==
    IF from > Len(fps) THEN m ELSE IndexFrom(IndexPatch(m, fps[from]), fps, from + 1)

\* pathToPatch once the index loop has run over filePatches
PatchIndex(fps) == IndexFrom(<<>>, fps, 1)

\* s.replace(/\\/g, '/')
SlashPath(s) == [k \in 1..Len(s) |-> IF s[k] = "\\" THEN "/" ELSE s[k]]

\* a ChangedFile as the patch loop sees it: patch is not set yet
Unpatched(cf) ==
    [status |-> cf.status, path |-> cf.path, oldPath |-> cf.oldPath,
     insertions |-> cf.insertions, deletions |-> cf.deletions, patch |-> Undefined]

\* a lookup by the current path only
AssignPatchNoFallback(m, cf) ==
    LET patch == OrElse(MapGet(m, SlashPath(cf.path)), Undefined)
    IN  IF Falsy(patch) THEN cf ELSE [cf EXCEPT !.patch = patch]

\* the body of the patch loop for one ChangedFile
AssignPatch(m, cf) ==
    LET keyNow == SlashPath(cf.path)
        patch == OrElse(MapGet(m, keyNow),
                        IF Falsy(cf.oldPath) THEN Undefined
                        ELSE MapGet(m, SlashPath(cf.oldPath)))
    IN  IF Falsy(patch) THEN cf ELSE [cf EXCEPT !.patch = patch]

AssignPatches(m, files) == [k \in 1..Len(files) |-> AssignPatch(m, files[k])]

\* the diff texts git show writes: sections for the paths p, q, a/x, b/y and
\* the rename of o to p, after the commit header when the text is the full diff
HeaderOf(aPath, bPath) == DiffGitA \o aPath \o SepB \o bPath

Sections ==
    { <<HeaderOf(<<"p">>, <<"p">>), <<"@", "@">>, <<"+", "x">>>>,
      <<HeaderOf(<<"q">>, <<"q">>)>>,
      <<HeaderOf(<<"o">>, <<"p">>), <<"-", "y">>, <<" ">>>>,
      <<HeaderOf(<<"a", "/", "x">>, <<"a", "/", "x">>), <<"+", "x">>>>,
      <<HeaderOf(<<"b", "/", "y">>, <<"b", "/", "y">>), <<"@", "@">>>> }

\* the lines before the first section of a full diff: the commit header
Preambles == { <<>>, <<<<"c", "o", "m", "m", "i", "t", " ", "1">>, <<>>>> }

RECURSIVE SectionSeqs(_)
SectionSeqs(n) ==
    IF n = 0 THEN {<<>>}
    ELSE {<<>>} \cup {sec \o t : sec \in Sections, t \in SectionSeqs(n - 1)}

\* with and without the newline after the last line; never the empty text
DiffTexts ==
    {Join(pre \o ls, NL) \o end :
        pre \in Preambles, ls \in SectionSeqs(MaxSections) \ {<<>>}, end \in {<<>>, <<NL>>}}

\* ChangedFile lists: paths with and without a section, renames, and a path
\* git writes quoted because it has a backslash
Change(status, path, oldPath) == [NewChange(path) EXCEPT !.status = status, !.oldPath = oldPath]

ChangeLists ==
    { <<Change(<<"R">>, <<"p">>, <<"o">>), Change(<<"A">>, <<"z">>, Undefined),
        Change(<<"R">>, <<"r">>, <<"q">>)>>,
      <<Change(<<"M">>, <<"q">>, Undefined), Change(<<"M">>, <<"a", "/", "x">>, Undefined),
        Change(<<"A">>, <<"\"", "d", "\\", "\\", "f", "\"">>, Undefined)>> }

\* patchSource.split('\n')
PatchLines == Split(patchSource, NL)

InitPatches ==
    /\ patchSource \in DiffTexts
    /\ cfList \in {[k \in 1..Len(l) |-> Unpatched(l[k])] : l \in ChangeLists}
    /\ si = 1
    /\ currentPatch = Null
    /\ buffer = <<>>
    /\ filePatches = <<>>
    /\ pathToPatch = <<>>
    /\ spc = "split"
    /\ ParserIdle /\ BlameIdle /\ ChangeIdle /\ HeaderIdle /\ RequestIdle /\ suspended = Null

\* one iteration of the loop over the lines of the diff
ReadDiffLine ==
    /\ spc = "split"
    /\ si <= Len(PatchLines)
    /\ LET st == SplitLine([current |-> currentPatch, buffer |-> buffer,
                            filePatches |-> filePatches], PatchLines[si])
       IN  /\ currentPatch' = st.current
           /\ buffer' = st.buffer
           /\ filePatches' = st.filePatches
    /\ si' = si + 1
    /\ UNCHANGED <<suspended, patchSource, pathToPatch, cfList, spc,
                   parserVars, blameVars, changeVars, headerVars, requestVars>>

\* the loop ends: the flush() after it closes the last section
DiffRead ==
    /\ spc = "split"
    /\ si > Len(PatchLines)
    /\ LET st == flush([current |-> currentPatch, buffer |-> buffer,
                        filePatches |-> filePatches])
       IN  /\ currentPatch' = st.current
           /\ buffer' = st.buffer
           /\ filePatches' = st.filePatches
    /\ spc' = "index"
    /\ UNCHANGED <<suspended, patchSource, si, pathToPatch, cfList,
                   parserVars, blameVars, changeVars, headerVars, requestVars>>

\* the loop that builds pathToPatch
BuildPatchIndex ==
    /\ spc = "index"
    /\ pathToPatch' = PatchIndex(filePatches)
    /\ spc' = "assign"
    /\ UNCHANGED <<suspended, patchSource, si, currentPatch, buffer, filePatches, cfList,
                   parserVars, blameVars, changeVars, headerVars, requestVars>>

\* the loop that sets patch on the ChangedFiles
SetPatches ==
    /\ spc = "assign"
    /\ cfList' = AssignPatches(pathToPatch, cfList)
    /\ spc' = "done"
    /\ UNCHANGED <<suspended, patchSource, si, currentPatch, buffer, filePatches, pathToPatch,
                   parserVars, blameVars, changeVars, headerVars, requestVars>>

NextPatches ==
    \/ ReadDiffLine
    \/ DiffRead
    \/ BuildPatchIndex
    \/ SetPatches

SpecPatches == InitPatches /\ [][NextPatches]_vars

----------------------------------------------------------------------------
(* Claims C11..C13: the patch splitter, its index and the patch lookup. *)

\* a section header as git writes it
IsSectionHeader(l) == StartsWith(l, <<"d", "i", "f", "f", " ", "-", "-", "g", "i", "t", " ">>)

\* the header lines of the diff text, in order
SectionHeaders == SelectSeq(PatchLines, IsSectionHeader)

\* the text is nothing but sections: its first line is a section header
ConsistsOfSections == IsSectionHeader(PatchLines[1])

SplitDone == spc \in {"index", "assign", "done"}

\* the section texts in the order they were closed
SectionTexts == [k \in 1..Len(filePatches) |-> filePatches[k].patch]

\* C11: once a diff text that consists of sections has been split, there is
\* one section per header line, in the order of the header lines, each
\* beginning with its own header line, and the section texts joined with
\* newlines are the input text exactly.
C11_SplitReconstructsInput ==
    (SplitDone /\ ConsistsOfSections) =>
        /\ Len(filePatches) = Len(SectionHeaders)
        /\ \A k \in 1..Len(filePatches) :
              Split(filePatches[k].patch, NL)[1] = SectionHeaders[k]
        /\ Join(SectionTexts, NL) = patchSource

\* three sections for three different paths have been split
C11_Witness ==
    /\ SplitDone /\ ConsistsOfSections
    /\ Len(filePatches) = 3
    /\ Cardinality({filePatches[k].aPath : k \in 1..3}) = 3
    /\ Join(SectionTexts, NL) = patchSource

\* the paths of a header line "diff --git a/<pathA> b/<pathB>"
PathA(l) == diffHeaderRegex(l).aPath
PathB(l) == diffHeaderRegex(l).bPath

IndexBuilt == spc \in {"assign", "done"}

\* no later section of the text names the path on either side
LastToName(k, path) ==
    \A j \in (k + 1)..Len(SectionHeaders) :
        PathA(SectionHeaders[j]) # path /\ PathB(SectionHeaders[j]) # path

BothPathsIndexed(k) ==
    LET l == SectionHeaders[k]
        text == filePatches[k].patch
    IN  /\ LastToName(k, PathA(l)) => MapGet(pathToPatch, PathA(l)) = text
        /\ LastToName(k, PathB(l)) => MapGet(pathToPatch, PathB(l)) = text

BeginsWithPrefix(path) == StartsWith(path, <<"a", "/">>) \/ StartsWith(path, <<"b", "/">>)

\* C12: once the index is built, every section's pathA and pathB (the header
\* paths without the a/ or b/ prefix) are keys of the index that map to that
\* section's text, also when a path itself begins with a/ or b/.  A key that a
\* later section names too is left to that section.
C12_BothPathsIndexed ==
    (IndexBuilt /\ ConsistsOfSections) =>
        \A k \in 1..Len(SectionHeaders) : BothPathsIndexed(k)

\* the same for the sections whose paths do not begin with a/ or b/
C12_PlainPathsIndexed ==
    (IndexBuilt /\ ConsistsOfSections) =>
        \A k \in 1..Len(SectionHeaders) :
            (~BeginsWithPrefix(PathA(SectionHeaders[k]))
                /\ ~BeginsWithPrefix(PathB(SectionHeaders[k])))
            => BothPathsIndexed(k)

\* what a path beginning with a/ or b/ is indexed under: the path with that
\* directory taken off as well
C12_PrefixedPathsLoseDirectory ==
    (IndexBuilt /\ ConsistsOfSections) =>
        \A k \in 1..Len(SectionHeaders) :
            LET a == PathA(SectionHeaders[k])
            IN  (BeginsWithPrefix(a) /\ LastToName(k, a))
                => /\ ~MapHas(pathToPatch, a)
                   /\ MapHas(pathToPatch, Substring(a, 2))

PatchesSet == spc = "done"

\* the section the index holds for a ChangedFile: under its path, else under
\* its oldPath, else none
SectionFor(cf) ==
    IF MapHas(pathToPatch, cf.path) THEN MapGet(pathToPatch, cf.path)
    ELSE IF cf.oldPath # Undefined /\ MapHas(pathToPatch, cf.oldPath)
    THEN MapGet(pathToPatch, cf.oldPath)
    ELSE Undefined

\* C13: when the patches have been populated, each ChangedFile's patch is the
\* section indexed under its path, or else the one indexed under its oldPath,
\* and is unset when neither is indexed; nothing else of it is changed.
C13_PatchByPathThenOldPath ==
    PatchesSet =>
        \A k \in 1..Len(cfList) :
            /\ cfList[k].patch = SectionFor(cfList[k])
            /\ \E l \in ChangeLists : Len(l) = Len(cfList) /\ Unpatched(cfList[k]) = Unpatched(l[k])

\* a ChangedFile got its patch from its oldPath, and another one has none
C13_Witness ==
    /\ PatchesSet
    /\ \E k \in 1..Len(cfList) :
          /\ ~MapHas(pathToPatch, cfList[k].path)
          /\ cfList[k].oldPath # Undefined
          /\ MapHas(pathToPatch, cfList[k].oldPath)
          /\ cfList[k].patch = MapGet(pathToPatch, cfList[k].oldPath)
    /\ \E k \in 1..Len(cfList) : cfList[k].patch = Undefined

\* a ChangedFile got the section of its current path though its oldPath is
\* indexed with another section
C13_WitnessPathFirst ==
    /\ PatchesSet
    /\ \E k \in 1..Len(cfList) :
          /\ MapHas(pathToPatch, cfList[k].path)
          /\ cfList[k].oldPath # Undefined
          /\ MapHas(pathToPatch, cfList[k].oldPath)
          /\ MapGet(pathToPatch, cfList[k].oldPath) # MapGet(pathToPatch, cfList[k].path)
          /\ cfList[k].patch = MapGet(pathToPatch, cfList[k].path)

----------------------------------------------------------------------------
(* GitService.getCommitDetail: the header of git show --format=fuller.  The *)
(* lines of a header hold no carriage return.                               *)

\* the most lines in a header text
MaxHeaderLines == 3

\* "Initialize fields": every string field '' and parentHashes []
NewHeader ==
    [hash |-> <<>>, shortHash |-> <<>>,
     author |-> <<>>, authorEmail |-> <<>>, authorTime |-> <<>>, authorTimeZone |-> <<>>,
     committer |-> <<>>, committerEmail |-> <<>>, committerTime |-> <<>>,
     committerTimeZone |-> <<>>,
     summary |-> <<>>, message |-> <<>>, parentHashes |-> <<>>, treeHash |-> <<>>]

\* s.substring(0, n)
Prefix(s, n) == SubSeq(s, 1, IF Len(s) < n THEN Len(s) ELSE n)

\* line.match(/^Author:\s*(.+?)\s*<(.+?)>/) and the same for Commit:, on a
\* line that begins with the seven-character label: the two captures, or
\* NoMatch.  The name is lazy, so the "<" taken is the first one that leaves a
\* character for the name; only when that fails is the white space after the
\* label given to the name, and the "<" right after it taken.  The address is
\* lazy and not empty: it ends before the first ">" past its first character.
personMatch(line) ==
    LET s == Substring(line, 7)
        k == RunLen(s, 1, WhiteSpace)
        Closes(p) == p > 0 /\ IndexOf(s, ">", p + 2) > 0
        p1 == IndexOf(s, "<", k + 2)
        p == IF Closes(p1) THEN p1
             ELSE IF k >= 1 /\ k + 1 <= Len(s) /\ s[k + 1] = "<" /\ Closes(k + 1) THEN k + 1
             ELSE 0
    IN  IF p = 0 THEN NoMatch
        ELSE [match |-> TRUE,
              name |-> IF p = p1 THEN SubSeq(s, k + 1, p - 1) ELSE SubSeq(s, k, k),
              email |-> SubSeq(s, p + 1, IndexOf(s, ">", p + 2) - 1)]

\* d.match(/ ([-+]\d{4})$/): the zone, or NoMatch
zoneMatch(d) ==
    LET n == Len(d)
    IN  IF /\ n >= 6
           /\ d[n - 5] = Space
           /\ d[n - 4] \in {"-", "+"}
           /\ \A j \in (n - 3)..n : d[j] \in Digit
        THEN [match |-> TRUE, zone |-> SubSeq(d, n - 4, n)]
        ELSE NoMatch

\* the time and zone of an AuthorDate: or CommitDate: value
DateOf(value) ==
    LET d == Trim(value)
        tz == zoneMatch(d)
    IN  IF tz.match
        THEN [time |-> Trim(SubSeq(d, 1, Len(d) - 6)), zone |-> tz.zone]
        ELSE [time |-> d, zone |-> Undefined]

\* rest.split(/\s+/).filter(Boolean): the maximal runs of characters that are
\* not white space, in order
RECURSIVE Tokens(_)
Tokens(rest) ==
    LET ws == WhiteSpace \cup {NL}
        w == RunLen(rest, 1, ws)
        RECURSIVE WordLen(_)
        WordLen(pos) == IF pos <= Len(rest) /\ rest[pos] \notin ws THEN 1 + WordLen(pos + 1) ELSE 0
        n == WordLen(w + 1)
    IN  IF w = Len(rest) THEN <<>>
        ELSE <<SubSeq(rest, w + 1, w + n)>> \o Tokens(SubSeq(rest, w + n + 1, Len(rest)))

\* the parents with every token after the first dropped
MergeParentsFirstOnly(line) ==
    LET t == Tokens(Trim(Substring(line, 7)))
    IN  IF t = <<>> THEN <<>> ELSE <<t[1]>>

\* the parentHashes of a line that begins with "Merge: "
MergeParents(line) == Tokens(Trim(Substring(line, 7)))

\* the body of the header loop for one line
HeaderLineStep(h, line) ==
    IF StartsWith(line, <<"c", "o", "m", "m", "i", "t", " ">>) THEN
        LET hash == Trim(Substring(line, 7))
        IN  [h EXCEPT !.hash = hash, !.shortHash = Prefix(hash, 7)]
    ELSE IF StartsWith(line, <<"A", "u", "t", "h", "o", "r", ":", " ">>) THEN
        LET m == personMatch(line)
        IN  IF m.match THEN [h EXCEPT !.author = Trim(m.name), !.authorEmail = Trim(m.email)]
            ELSE h
    ELSE IF StartsWith(line, <<"C", "o", "m", "m", "i", "t", ":", " ">>) THEN
        LET m == personMatch(line)
        IN  IF m.match THEN [h EXCEPT !.committer = Trim(m.name), !.committerEmail = Trim(m.email)]
            ELSE h
    ELSE IF StartsWith(line, <<"A", "u", "t", "h", "o", "r", "D", "a", "t", "e", ":", " ">>) THEN
        LET d == DateOf(Substring(line, 12))
        IN  IF d.zone # Undefined
            THEN [h EXCEPT !.authorTime = d.time, !.authorTimeZone = d.zone]
            ELSE [h EXCEPT !.authorTime = d.time]
    ELSE IF StartsWith(line, <<"C", "o", "m", "m", "i", "t", "D", "a", "t", "e", ":", " ">>) THEN
        LET d == DateOf(Substring(line, 12))
        IN  IF d.zone # Undefined
            THEN [h EXCEPT !.committerTime = d.time, !.committerTimeZone = d.zone]
            ELSE [h EXCEPT !.committerTime = d.time]
    ELSE IF StartsWith(line, <<"M", "e", "r", "g", "e", ":", " ">>) THEN
        [h EXCEPT !.parentHashes = MergeParents(line)]
    ELSE IF StartsWith(line, <<"t", "r", "e", "e", " ">>) THEN
        [h EXCEPT !.treeHash = Trim(Substring(line, 5))]
    ELSE IF StartsWith(line, <<" ", " ", " ", " ">>) THEN
        LET msgLine == Substring(line, 4)
        IN  IF Len(msgLine) > 0
            THEN [h EXCEPT !.summary = IF h.summary = <<>> THEN Trim(msgLine) ELSE h.summary,
                           !.message = h.message \o msgLine \o <<NL>>]
            ELSE [h EXCEPT !.message = h.message \o <<NL>>]
    ELSE h

RECURSIVE HeaderFrom(_, _, _)
HeaderFrom(h, ls, from) ==
    IF from > Len(ls) THEN h ELSE HeaderFrom(HeaderLineStep(h, ls[from]), ls, from + 1)

\* the header loop and the message = message.trim() after it
ParseHeader(text) ==
    LET h == HeaderFrom(NewHeader, Split(text, NL), 1)
    IN  [h EXCEPT !.message = Trim(h.message)]

\* the lines git show --format=fuller --no-patch writes, and some it does not
HeaderLines ==
    { <<"c", "o", "m", "m", "i", "t", " ", "a", "b", "c", "1", "2", "3", "4", "d", "e", "f">>,
      <<"M", "e", "r", "g", "e", ":", " ", "a", "b", "c", "1", "2", "3", "4", " ", "d", "e", "f", "5", "6", "7", "8">>,
      <<"M", "e", "r", "g", "e", ":", " ", "a", "b", "c", "1", "2", "3", "4", " ", "d", "e", "f", "5", "6", "7", "8", " ", "0", "1", "2", "3", "a", "b", "c">>,
      <<"M", "e", "r", "g", "e", ":", " ", " ", "a", "b", "c", "1", "2", "3", "4", " ", Tab, " ", "d", "e", "f", "5", "6", "7", "8", " ">>,
      <<"M", "e", "r", "g", "e", ":", " ">>,
      <<"A", "u", "t", "h", "o", "r", ":", " ", " ", " ", " ", " ", "A", "l", " ", "B", " ", "<", "a", "l", "@", "x", ">">>,
      <<"A", "u", "t", "h", "o", "r", "D", "a", "t", "e", ":", " ", "M", "o", "n", " ", "1", " ", "+", "0", "1", "0", "0">>,
      <<" ", " ", " ", " ", "M", "e", "r", "g", "e", ":", " ", "f", "f", "f", "0", "0", "0", "0", " ", "i", "n", "t", "o", " ", "m", "a", "i", "n">>,
      <<"t", "r", "e", "e", " ", "4", "b", "8", "2", "5", "d", "c">>,
      <<>> }

HeaderTexts == {Join(ls, NL) : ls \in LineSeqs(HeaderLines, MaxHeaderLines)}

\* headerInfo.split('\n')
HeaderLinesRead == Split(headerInfo, NL)

InitHeader ==
    /\ headerInfo \in HeaderTexts
    /\ hi = 1
    /\ headerFields = NewHeader
    /\ hpc = "loop"
    /\ ParserIdle /\ BlameIdle /\ ChangeIdle /\ PatchIdle /\ RequestIdle /\ suspended = Null

\* one iteration of the header loop
ReadHeaderLine ==
    /\ hpc = "loop"
    /\ hi <= Len(HeaderLinesRead)
    /\ headerFields' = HeaderLineStep(headerFields, HeaderLinesRead[hi])
    /\ hi' = hi + 1
    /\ UNCHANGED <<suspended, headerInfo, hpc, parserVars, blameVars, changeVars, patchVars, requestVars>>

\* the end of the loop without message = message.trim()
HeaderReadUntrimmed ==
    /\ hpc = "loop"
    /\ hi > Len(HeaderLinesRead)
    /\ hpc' = "done"
    /\ UNCHANGED <<suspended, headerInfo, headerFields, hi, parserVars, blameVars, changeVars, patchVars, requestVars>>

\* the loop ends: message = message.trim()
HeaderRead ==
    /\ hpc = "loop"
    /\ hi > Len(HeaderLinesRead)
    /\ headerFields' = [headerFields EXCEPT !.message = Trim(headerFields.message)]
    /\ hpc' = "done"
    /\ UNCHANGED <<suspended, headerInfo, hi, parserVars, blameVars, changeVars, patchVars, requestVars>>

NextHeader == ReadHeaderLine \/ HeaderRead

SpecHeader == InitHeader /\ [][NextHeader]_vars

----------------------------------------------------------------------------
(* Claim C14: parentHashes. *)

MergeLabel == <<"M", "e", "r", "g", "e", ":", " ">>

\* the header lines read so far that begin with "Merge: "
MergeLinesRead ==
    SelectSeq(SubSeq(HeaderLinesRead, 1, hi - 1), LAMBDA l : StartsWith(l, MergeLabel))

\* the characters of s that are not white space
Unspaced(s) == SelectSeq(s, LAMBDA c : c \notin WhiteSpace)

\* the number of places in s where a token begins
TokenStarts(s) ==
    Cardinality({j \in 1..Len(s) :
                    s[j] \notin WhiteSpace /\ (j = 1 \/ s[j - 1] \in WhiteSpace)})

RECURSIVE Concat(_)
Concat(ss) == IF ss = <<>> THEN <<>> ELSE ss[1] \o Concat(Tail(ss))

\* tokens are the white-space-separated tokens of the text, in order
AreTokensOf(tokens, text) ==
    /\ Len(tokens) = TokenStarts(text)
    /\ \A k \in 1..Len(tokens) : tokens[k] # <<>> /\ Unspaced(tokens[k]) = tokens[k]
    /\ Concat(tokens) = Unspaced(text)

\* C14: while and after the header is read, parentHashes is empty when no
\* "Merge: " line has been read, and otherwise holds the white-space-separated
\* tokens of the Merge: line, in the order written.
C14_ParentHashesAreMergeTokens ==
    hpc \in {"loop", "done"} =>
        IF MergeLinesRead = <<>>
        THEN headerFields.parentHashes = <<>>
        ELSE AreTokensOf(headerFields.parentHashes,
                         Substring(MergeLinesRead[Len(MergeLinesRead)], Len(MergeLabel)))

\* the header with "Merge: abc1234 def5678" has been read
C14_Witness ==
    /\ hpc = "done"
    /\ \E k \in 1..Len(HeaderLinesRead) : HeaderLinesRead[k] = <<"M", "e", "r", "g", "e", ":", " ", "a", "b", "c", "1", "2", "3", "4", " ", "d", "e", "f", "5", "6", "7", "8">>
    /\ Len(MergeLinesRead) = 1
    /\ headerFields.parentHashes = <<<<"a", "b", "c", "1", "2", "3", "4">>, <<"d", "e", "f", "5", "6", "7", "8">>>>

\* a header without a Merge: line, though its message mentions one, has been read
C14_WitnessNoMerge ==
    /\ hpc = "done"
    /\ MergeLinesRead = <<>>
    /\ headerFields.summary = <<"M", "e", "r", "g", "e", ":", " ", "f", "f", "f", "0", "0", "0", "0", " ", "i", "n", "t", "o", " ", "m", "a", "i", "n">>
    /\ headerFields.parentHashes = <<>>

----------------------------------------------------------------------------
(* GitService.getCommitDetail as a request: validation, the repository    *)
(* check, and the gateway fetches, one step per await.  What runs between *)
(* two awaits is one step.                                                *)

\* the nameStatusOut and numstatOut loops as functions of the two texts
RECURSIVE StatusFrom(_, _, _)
StatusFrom(m, ls, from) ==
    IF from > Len(ls) THEN m ELSE StatusFrom(NameStatusLine(m, ls[from]), ls, from + 1)

RECURSIVE NumstatFrom(_, _, _)
NumstatFrom(m, ls, from) ==
    IF from > Len(ls) THEN m ELSE NumstatFrom(NumstatLine(m, ls[from]), ls, from + 1)

\* pathToChange after both loops
PathToChangeOf(statusText, numstatText) ==
    NumstatFrom(StatusFrom(<<>>, Split(statusText, NL), 1), Split(numstatText, NL), 1)

\* a JavaScript boolean inside an optional field
Bool(b) == <<"boolean", b>>

\* includeDiff = false when the request leaves it out
IncludeDiff(req) == IF req.includeDiff = Undefined THEN FALSE ELSE req.includeDiff[2]

\* patch population whenever per-file diffs are asked for, and only then
needFileDiffsOnlyOnRequest(req) == req.includeFileDiffs = Bool(TRUE)

\* needFileDiffs = !!includeFileDiffs || includeDiff === true
needFileDiffs(req) == req.includeFileDiffs = Bool(TRUE) \/ IncludeDiff(req) = TRUE

\* a logger that drops what it is given
WarnNothing(log, msg) == log

\* this.logger.warn(msg, ...)
Warn(log, msg) == Append(log, msg)

\* new Error(`Failed to get commit details: ${error.message}`) of the catch
\* (the message is the prefix followed by the message of the cause)
DetailFailure(cause) ==
    [prefix |-> "Failed to get commit details: ", message |-> cause.message]

\* a result whose diff is the text of a patch when no diff was fetched
DetailResultExposingPatch(h, t, d, files) ==
    [hash |-> h.hash, shortHash |-> h.shortHash,
     author |-> h.author, authorEmail |-> h.authorEmail,
     authorTime |-> h.authorTime, authorTimeZone |-> h.authorTimeZone,
     committer |-> h.committer, committerEmail |-> h.committerEmail,
     committerTime |-> h.committerTime, committerTimeZone |-> h.committerTimeZone,
     summary |-> h.summary, message |-> h.message,
     parentHashes |-> h.parentHashes, treeHash |-> h.treeHash,
     filesChanged |-> t.filesChanged, insertions |-> t.insertions,
     deletions |-> t.deletions,
     diff |-> IF d # Undefined THEN d
              ELSE IF \E k \in 1..Len(files) : files[k].patch # Undefined
              THEN files[CHOOSE k \in 1..Len(files) : files[k].patch # Undefined].patch
              ELSE Undefined,
     changedFiles |-> files]

\* the returned GitCommitDetail
DetailResultOf(h, t, d, files) ==
    [hash |-> h.hash, shortHash |-> h.shortHash,
     author |-> h.author, authorEmail |-> h.authorEmail,
     authorTime |-> h.authorTime, authorTimeZone |-> h.authorTimeZone,
     committer |-> h.committer, committerEmail |-> h.committerEmail,
     committerTime |-> h.committerTime, committerTimeZone |-> h.committerTimeZone,
     summary |-> h.summary, message |-> h.message,
     parentHashes |-> h.parentHashes, treeHash |-> h.treeHash,
     filesChanged |-> t.filesChanged, insertions |-> t.insertions,
     deletions |-> t.deletions,
     diff |-> d,
     changedFiles |-> files]

\* the requests
CommitHashes == {Undefined, <<>>, <<"a", "b", "c", "1", "2", "3", "4">>, <<"0", "0", "0", "0", "0", "0", "0">>}
DetailFilePaths ==
    {Undefined, <<"/", "repo", "a.ts">>, <<"/", "repo", "gone.ts">>, <<"/", "tmp", "b.ts">>}
Flags == {Undefined, Bool(FALSE), Bool(TRUE)}

\* the revisions git rev-parse resolves in the repository
KnownCommits == {<<"a", "b", "c", "1", "2", "3", "4">>}

\* a gateway that resolves every revision
ResolvesAnything(commitHash) == TRUE

\* git.revparse([commitHash]) resolves
Resolves(commitHash) == commitHash \in KnownCommits

\* what the gateway returns for the known revision: a merge and a plain
\* commit, with or without changed files, and the diff of each; an empty text
\* is what git show writes for an object without content
DetailHeaderTexts ==
    { Join(<<<<"c", "o", "m", "m", "i", "t", " ", "a", "b", "c", "1", "2", "3", "4", "d", "e", "f">>, <<"M", "e", "r", "g", "e", ":", " ", "a", "b", "c", "1", "2", "3", "4", " ", "d", "e", "f", "5", "6", "7", "8">>,
             <<"A", "u", "t", "h", "o", "r", ":", " ", " ", " ", " ", " ", "A", "l", " ", "B", " ", "<", "a", "l", "@", "x", ">">>, <<>>, <<" ", " ", " ", " ", "s">>>>, NL),
      Join(<<<<"c", "o", "m", "m", "i", "t", " ", "a", "b", "c", "1", "2", "3", "4", "d", "e", "f">>, <<"A", "u", "t", "h", "o", "r", ":", " ", " ", " ", " ", " ", "A", "l", " ", "B", " ", "<", "a", "l", "@", "x", ">">>>>, NL) }
DetailStatusTexts == { <<>>, Join(<<<<"M", Tab, "p">>, <<"R", "1", "0", "0", Tab, "o", Tab, "q">>>>, NL) }
DetailNumstatTexts == { <<>>, Join(<<<<"3", Tab, "1", Tab, "p">>, <<"-", Tab, "-", Tab, "q">>>>, NL) }
DetailPatchTexts ==
    { <<>>,
      Join(<<HeaderOf(<<"p">>, <<"p">>), <<"+", "x">>, HeaderOf(<<"o">>, <<"q">>)>>, NL) }
DetailDiffTexts ==
    { <<>>,
      Join(<<<<"c", "o", "m", "m", "i", "t", " ", "a", "b", "c", "1", "2", "3", "4", "d", "e", "f">>, <<>>,
             HeaderOf(<<"p">>, <<"p">>), <<"+", "x">>, HeaderOf(<<"o">>, <<"q">>)>>, NL) }

InitDetail ==
    /\ request \in [commitHash : CommitHashes, includeDiff : Flags,
                    includeFileDiffs : Flags, filePath : DetailFilePaths]
    /\ dpc = "start"
    /\ diff = Undefined
    /\ detailResult = Null
    /\ detailError = Null
    /\ gitCalls = <<>>
    /\ warnings = <<>>
    /\ ParserIdle /\ BlameIdle /\ ChangeIdle /\ HeaderIdle /\ PatchIdle /\ suspended = Null

\* the locals of the request, by the step that sets them
fetchedVars == <<headerInfo, nameStatusOut, numstatOut>>
parsedVars == <<headerFields, pathToChange, totals>>
splitVars == <<patchSource, filePatches, pathToPatch, cfList>>
untouchedVars ==
    <<parserVars, blameVars, cpc, ci, hi, hpc, si, currentPatch, buffer, spc, suspended>>

\* a rejection that comes out as an empty result
ResolveInstead(e) ==
    /\ detailResult' = DetailResultOf(NewHeader, Aggregate(<<>>), Undefined, <<>>)
    /\ dpc' = "done"
    /\ UNCHANGED <<request, diff, detailError, warnings, fetchedVars, parsedVars,
                   splitVars, untouchedVars>>

\* the request is rejected with the error e
Reject(e) ==
    /\ detailError' = e
    /\ dpc' = "done"
    /\ UNCHANGED <<request, diff, detailResult, warnings, fetchedVars, parsedVars,
                   splitVars, untouchedVars>>

\* the request is suspended at the next gateway call
Await(op) ==
    /\ dpc' = op
    /\ UNCHANGED <<request, detailResult, detailError, splitVars, untouchedVars>>

\* the return that gives up the changed files when there is no patch text
ReturnWithoutFilesOnFailure(h, t, changed, d, src) ==
    LET fps == IF Falsy(src) THEN <<>> ELSE SplitPatches(src)
        index == PatchIndex(fps)
        unpatched == [k \in 1..Len(changed) |-> Unpatched(changed[k])]
        files == IF Falsy(src) THEN <<>> ELSE AssignPatches(index, unpatched)
    IN  /\ patchSource' = IF Falsy(src) THEN <<>> ELSE src
        /\ filePatches' = fps
        /\ pathToPatch' = index
        /\ cfList' = files
        /\ detailResult' = DetailResultOf(h, t, d, files)
        /\ dpc' = "done"
        /\ UNCHANGED <<request, detailError, untouchedVars>>

\* the per-file patch block on the text src (nothing is split when src is
\* empty or was not fetched), then the return
Return(h, t, changed, d, src) ==
    LET fps == IF Falsy(src) THEN <<>> ELSE SplitPatches(src)
        index == PatchIndex(fps)
        unpatched == [k \in 1..Len(changed) |-> Unpatched(changed[k])]
        files == IF Falsy(src) THEN unpatched ELSE AssignPatches(index, unpatched)
    IN  /\ patchSource' = IF Falsy(src) THEN <<>> ELSE src
        /\ filePatches' = fps
        /\ pathToPatch' = index
        /\ cfList' = files
        /\ detailResult' = DetailResultOf(h, t, d, files)
        /\ dpc' = "done"
        /\ UNCHANGED <<request, detailError, untouchedVars>>

\* up to the first await: validation, then git.checkIsRepo() is issued
DetailValidate ==
    /\ dpc = "start"
    /\ IF Falsy(request.commitHash)
       THEN Reject(Error("Commit hash is required")) /\ UNCHANGED gitCalls
       ELSE IF Falsy(request.filePath)
       THEN Reject(Error("File path is required")) /\ UNCHANGED gitCalls
       ELSE /\ gitCalls' = Issue(gitCalls, BaseDir(request.filePath), "checkIsRepo")
            /\ Await("checkIsRepo")
            /\ UNCHANGED <<diff, warnings, fetchedVars, parsedVars>>

\* git.checkIsRepo() resolves; when true, git.revparse([commitHash]) is issued
DetailCheckIsRepoReturns ==
    /\ dpc = "checkIsRepo"
    /\ IF IsRepo(BaseDir(request.filePath))
       THEN /\ gitCalls' = Issue(Settle(gitCalls, "ok"), BaseDir(request.filePath), "revparse")
            /\ Await("revparse")
            /\ UNCHANGED <<diff, warnings, fetchedVars, parsedVars>>
       ELSE /\ gitCalls' = Settle(gitCalls, "ok")
            /\ Reject(Error("Not in a git repository"))

\* git.checkIsRepo() rejects, outside the try block
DetailCheckIsRepoFails ==
    /\ dpc = "checkIsRepo"
    /\ gitCalls' = Settle(gitCalls, "failed")
    /\ Reject(Error("git failed"))

\* git.revparse resolves: the header fetch is issued
RevparseReturns ==
    /\ dpc = "revparse"
    /\ Resolves(request.commitHash)
    /\ gitCalls' = Issue(Settle(gitCalls, "ok"), BaseDir(request.filePath), "showHeader")
    /\ Await("showHeader")
    /\ UNCHANGED <<diff, warnings, fetchedVars, parsedVars>>

\* git.revparse rejects: the inner catch throws, the outer catch wraps
RevparseFails ==
    /\ dpc = "revparse"
    /\ gitCalls' = Settle(gitCalls, "failed")
    /\ Reject(DetailFailure(Error("Commit not found in repository")))

\* git.show(--format=fuller --no-patch) resolves: the status fetch is issued
ShowHeaderReturns ==
    /\ dpc = "showHeader"
    /\ headerInfo' \in DetailHeaderTexts
    /\ gitCalls' = Issue(Settle(gitCalls, "ok"), BaseDir(request.filePath), "showNameStatus")
    /\ Await("showNameStatus")
    /\ UNCHANGED <<diff, warnings, nameStatusOut, numstatOut, parsedVars>>

\* git.show(--name-status) resolves: the numstat fetch is issued
ShowNameStatusReturns ==
    /\ dpc = "showNameStatus"
    /\ nameStatusOut' \in DetailStatusTexts
    /\ gitCalls' = Issue(Settle(gitCalls, "ok"), BaseDir(request.filePath), "showNumstat")
    /\ Await("showNumstat")
    /\ UNCHANGED <<diff, warnings, headerInfo, numstatOut, parsedVars>>

\* git.show(--numstat) resolves: header, changed files and totals are
\* computed; then the diff fetch or the patch-only fetch is issued, or the
\* request returns
ShowNumstatReturns ==
    /\ dpc = "showNumstat"
    /\ \E text \in DetailNumstatTexts :
          LET h == ParseHeader(headerInfo)
              m == PathToChangeOf(nameStatusOut, text)
              t == Aggregate(MapValues(m))
          IN  /\ numstatOut' = text
              /\ headerFields' = h
              /\ pathToChange' = m
              /\ totals' = t
              /\ IF IncludeDiff(request)
                 THEN /\ gitCalls' = Issue(Settle(gitCalls, "ok"), BaseDir(request.filePath), "showDiff")
                      /\ Await("showDiff")
                 ELSE IF needFileDiffs(request)
                 THEN /\ gitCalls' = Issue(Settle(gitCalls, "ok"), BaseDir(request.filePath), "showPatch")
                      /\ Await("showPatch")
                 ELSE /\ gitCalls' = Settle(gitCalls, "ok")
                      /\ Return(h, t, MapValues(m), Undefined, Undefined)
    /\ UNCHANGED <<diff, warnings, headerInfo, nameStatusOut>>

\* one of the three git.show calls rejects: the catch wraps and rethrows
MandatoryShowFails ==
    /\ dpc \in {"showHeader", "showNameStatus", "showNumstat"}
    /\ gitCalls' = Settle(gitCalls, "failed")
    /\ Reject(DetailFailure(Error("git failed")))

\* git.show([commitHash]) resolves: diff is the text; it is the patch source
\* unless it is empty, and then the patch-only fetch is issued
ShowDiffReturns ==
    /\ dpc = "showDiff"
    /\ \E text \in DetailDiffTexts :
          /\ diff' = text
          /\ IF needFileDiffs(request) /\ Falsy(text)
             THEN /\ gitCalls' = Issue(Settle(gitCalls, "ok"), BaseDir(request.filePath), "showPatch")
                  /\ Await("showPatch")
             ELSE /\ gitCalls' = Settle(gitCalls, "ok")
                  /\ Return(headerFields, totals, ChangedFiles, text,
                            IF needFileDiffs(request) THEN text ELSE Undefined)
    /\ UNCHANGED <<warnings, fetchedVars, parsedVars>>

\* git.show([commitHash]) rejects: a warning, diff stays undefined, and the
\* patch-only fetch is issued
ShowDiffFails ==
    /\ dpc = "showDiff"
    /\ warnings' = Warn(warnings, "Failed to get diff")
    /\ IF needFileDiffs(request)
       THEN /\ gitCalls' = Issue(Settle(gitCalls, "failed"), BaseDir(request.filePath), "showPatch")
            /\ Await("showPatch")
       ELSE /\ gitCalls' = Settle(gitCalls, "failed")
            /\ Return(headerFields, totals, ChangedFiles, Undefined, Undefined)
    /\ UNCHANGED <<diff, fetchedVars, parsedVars>>

\* git.show(--pretty=format: --patch --no-color) resolves: split, index,
\* assign, return
ShowPatchReturns ==
    /\ dpc = "showPatch"
    /\ \E text \in DetailPatchTexts :
          Return(headerFields, totals, ChangedFiles, diff, text)
    /\ gitCalls' = Settle(gitCalls, "ok")
    /\ UNCHANGED <<diff, warnings, fetchedVars, parsedVars>>

\* the patch-only fetch rejects: a warning, and the request returns
ShowPatchFails ==
    /\ dpc = "showPatch"
    /\ gitCalls' = Settle(gitCalls, "failed")
    /\ warnings' = Warn(warnings, "Failed to compute per-file patches")
    /\ Return(headerFields, totals, ChangedFiles, diff, Undefined)
    /\ UNCHANGED <<diff, fetchedVars, parsedVars>>

NextDetail ==
    \/ DetailValidate
    \/ DetailCheckIsRepoReturns
    \/ DetailCheckIsRepoFails
    \/ RevparseReturns
    \/ RevparseFails
    \/ ShowHeaderReturns
    \/ ShowNameStatusReturns
    \/ ShowNumstatReturns
    \/ MandatoryShowFails
    \/ ShowDiffReturns
    \/ ShowDiffFails
    \/ ShowPatchReturns
    \/ ShowPatchFails

SpecDetail == InitDetail /\ [][NextDetail]_vars

----------------------------------------------------------------------------
(* Claims C15..C20: the gateway calls of a commit-detail request. *)

Called(op) == \E k \in 1..Len(gitCalls) : gitCalls[k].op = op
Failed(op) == \E k \in 1..Len(gitCalls) : gitCalls[k].op = op /\ gitCalls[k].outcome = "failed"
Succeeded(op) == \E k \in 1..Len(gitCalls) : gitCalls[k].op = op /\ gitCalls[k].outcome = "ok"
CallCount(op) == Cardinality({k \in 1..Len(gitCalls) : gitCalls[k].op = op})

\* the header, status and numstat fetches
MandatoryFetches == {"showHeader", "showNameStatus", "showNumstat"}

\* the fetches: every gateway call but the repository check
Fetches == {k \in 1..Len(gitCalls) : gitCalls[k].op # "checkIsRepo"}

Returned == detailResult # Null
Rejected == detailError # Null

\* C15: a failed header, status or numstat fetch is the last gateway call of
\* its request (no retry, no later fetch), and the request has ended with an
\* error and without a result; no mandatory fetch is issued twice.
C15_MandatoryFailureFailsRequest ==
    /\ \A k \in 1..Len(gitCalls) :
          (gitCalls[k].op \in MandatoryFetches /\ gitCalls[k].outcome = "failed")
          => /\ k = Len(gitCalls)
             /\ dpc = "done"
             /\ Rejected
             /\ ~Returned
    /\ \A op \in MandatoryFetches : CallCount(op) <= 1

\* the numstat fetch failed after the header and status fetches succeeded
C15_Witness ==
    /\ Succeeded("showHeader") /\ Succeeded("showNameStatus") /\ Failed("showNumstat")
    /\ dpc = "done" /\ Rejected /\ ~Returned
    /\ Len(gitCalls) = 5

\* the header fetch failed: neither status nor numstat was fetched
C15_WitnessHeader ==
    /\ Failed("showHeader")
    /\ ~Called("showNameStatus") /\ ~Called("showNumstat")
    /\ dpc = "done" /\ Rejected

DiffWarned == \E k \in 1..Len(warnings) : warnings[k] = "Failed to get diff"

\* C16: a request whose full-diff fetch failed ends with a result, not an
\* error, and the result's diff is unset; the diff warning is recorded exactly
\* when a full-diff fetch has failed, and a full-diff fetch is issued only
\* when includeDiff is set.
C16_DiffFailureIsWarning ==
    /\ (Failed("showDiff") /\ dpc = "done")
       => (Returned /\ ~Rejected /\ detailResult.diff = Undefined)
    /\ DiffWarned <=> Failed("showDiff")
    /\ Called("showDiff") => request.includeDiff = Bool(TRUE)

\* includeDiff was set, the diff fetch failed, and the request returned
C16_Witness ==
    /\ request.includeDiff = Bool(TRUE)
    /\ Failed("showDiff")
    /\ Returned /\ ~Rejected
    /\ detailResult.diff = Undefined
    /\ DiffWarned

\* per-file patches were asked for without the diff, the patch-only fetch
\* failed, and no diff warning was recorded
C16_WitnessNotRequested ==
    /\ request.includeDiff # Bool(TRUE)
    /\ Failed("showPatch")
    /\ Returned
    /\ warnings # <<>>
    /\ ~DiffWarned

\* C17: the diff of a returned result is set exactly when includeDiff was
\* requested and the full-diff fetch succeeded, and then it is the fetched
\* text; the text of a patch-only fetch is never the diff.
C17_DiffSetIffFetched ==
    Returned =>
        /\ detailResult.diff # Undefined
           <=> (request.includeDiff = Bool(TRUE) /\ Succeeded("showDiff"))
        /\ detailResult.diff = diff
        /\ (request.includeDiff # Bool(TRUE)) => detailResult.diff = Undefined

\* includeDiff false and includeFileDiffs true: the patch-only fetch gave the
\* files their patches and the result has no diff
C17_Witness ==
    /\ request.includeDiff = Bool(FALSE)
    /\ request.includeFileDiffs = Bool(TRUE)
    /\ Succeeded("showPatch")
    /\ Returned
    /\ \E k \in 1..Len(detailResult.changedFiles) :
          detailResult.changedFiles[k].patch # Undefined
    /\ detailResult.diff = Undefined

\* the diff was requested and fetched
C17_WitnessSet ==
    /\ Returned
    /\ Succeeded("showDiff")
    /\ detailResult.diff \in DetailDiffTexts \ {<<>>}

\* includeDiff or includeFileDiffs is set
PatchesWanted ==
    request.includeDiff = Bool(TRUE) \/ request.includeFileDiffs = Bool(TRUE)

\* C18: with neither option set no full-diff and no patch-only fetch is
\* issued and no ChangedFile of the result has a patch; with one of them set,
\* a request that returns has either issued the patch-only fetch or split the
\* diff text it fetched.
C18_PatchesOnlyWhenWanted ==
    /\ ~PatchesWanted =>
          /\ ~Called("showDiff") /\ ~Called("showPatch")
          /\ Returned => \A k \in 1..Len(detailResult.changedFiles) :
                            detailResult.changedFiles[k].patch = Undefined
    /\ (PatchesWanted /\ Returned) =>
          \/ Called("showPatch")
          \/ /\ Succeeded("showDiff")
             /\ patchSource = diff
             /\ filePatches = SplitPatches(diff)

\* neither option set: a result with changed files, none with a patch
C18_Witness ==
    /\ ~PatchesWanted
    /\ Returned
    /\ Len(detailResult.changedFiles) = 2
    /\ Len(gitCalls) = 5

\* only includeDiff set: the patches come from the diff text
C18_WitnessFromDiff ==
    /\ request.includeDiff = Bool(TRUE) /\ request.includeFileDiffs # Bool(TRUE)
    /\ Returned
    /\ ~Called("showPatch")
    /\ \E k \in 1..Len(detailResult.changedFiles) :
          detailResult.changedFiles[k].patch # Undefined

\* C19: when the full-diff fetch succeeded no patch-only fetch is issued and
\* the patches are split from the fetched text; a patch-only fetch is issued
\* at most once and only when no diff text was retrieved.
C19_FetchedDiffIsReused ==
    /\ Succeeded("showDiff") => ~Called("showPatch")
    /\ (Succeeded("showDiff") /\ Returned)
       => (patchSource = diff /\ filePatches = SplitPatches(diff))
    /\ CallCount("showPatch") <= 1
    /\ Called("showPatch") => Falsy(diff)

\* the same when the text the full-diff fetch returned is not empty
C19_NonEmptyDiffIsReused ==
    /\ (Succeeded("showDiff") /\ diff # <<>>) => ~Called("showPatch")
    /\ (Succeeded("showDiff") /\ diff # <<>> /\ Returned)
       => (patchSource = diff /\ filePatches = SplitPatches(diff))
    /\ CallCount("showPatch") <= 1
    /\ Called("showPatch") => Falsy(diff)

\* an empty diff text is followed by the patch-only fetch
C19_EmptyDiffIsFetchedAgain ==
    (Succeeded("showDiff") /\ diff = <<>> /\ dpc = "done") => Called("showPatch")

\* C20: after the repository check a request issues at most five fetches: at
\* most one resolve, one header, one status, one numstat, and at most one
\* fetch that is the full-diff or the patch-only fetch.
C20_AtMostFiveFetches ==
    /\ Cardinality(Fetches) <= 5
    /\ \A op \in {"revparse", "showHeader", "showNameStatus", "showNumstat"} :
          CallCount(op) <= 1
    /\ CallCount("showDiff") + CallCount("showPatch") <= 1

\* what holds instead: at most six, the sixth being the patch-only fetch after
\* a full-diff fetch that failed or returned an empty text
C20_AtMostSixFetches ==
    /\ Cardinality(Fetches) <= 6
    /\ \A op \in {"revparse", "showHeader", "showNameStatus", "showNumstat",
                  "showDiff", "showPatch"} : CallCount(op) <= 1
    /\ (Called("showDiff") /\ Called("showPatch"))
       => (Failed("showDiff") \/ (Succeeded("showDiff") /\ diff = <<>>))

----------------------------------------------------------------------------
(* SpecService: one GitService with a blame request and a commit-detail     *)
(* request in flight at once.  Each request runs up to its next await in    *)
(* one step; the steps of the two requests interleave in any order.  The    *)
(* service object holds only the parser (without fields) and the logger:    *)
(* every accumulator, map and buffer is a local of the call.                *)

\* the files the two requests name: the repositories /repo and /work, a
\* directory outside version control, a missing file, a relative path
ServiceWorkFile == <<"/", "work", "d.ts">>
ServiceBlamePaths == FilePaths \cup {ServiceWorkFile}
ServiceDetailPaths == DetailFilePaths \cup {ServiceWorkFile, <<>>}

\* the gateway answers the concurrent requests are run on
ServiceBlameTexts ==
    {TextOf(ls) : ls \in GroupSeqs({Group(1, 1, 4, TRUE), Group(1, 2, 3, TRUE)},
                                   MaxGroups - 1)}
ServiceHeaderTexts == {t \in DetailHeaderTexts : Len(Split(t, NL)) = 2}
ServiceStatusTexts == DetailStatusTexts \ {<<>>}
ServiceNumstatTexts == DetailNumstatTexts \ {<<>>}

InitService ==
    /\ params \in [filePath : ServiceBlamePaths, lineFrom : {Undefined},
                   lineTo : {Undefined}]
    /\ bpc = "start"
    /\ blameResult = Null
    /\ blameError = Null
    /\ calls = <<>>
    /\ request \in [commitHash : CommitHashes, includeDiff : {Undefined, Bool(TRUE)},
                    includeFileDiffs : {Undefined, Bool(TRUE)},
                    filePath : ServiceDetailPaths]
    /\ dpc = "start"
    /\ diff = Undefined
    /\ detailResult = Null
    /\ detailError = Null
    /\ gitCalls = <<>>
    /\ warnings = <<>>
    /\ ParserIdle /\ ChangeIdle /\ HeaderIdle /\ PatchIdle /\ suspended = Null

\* a step of the blame request
BlameRequestStep == BlameStep(ServiceBlameTexts)

\* a step of the commit-detail request
DetailRequestStep ==
    /\ NextDetail
    /\ headerInfo' \in {<<>>} \cup ServiceHeaderTexts
    /\ nameStatusOut' \in {<<>>} \cup ServiceStatusTexts
    /\ numstatOut' \in {<<>>} \cup ServiceNumstatTexts

NextService == BlameRequestStep \/ DetailRequestStep

SpecService == InitService /\ [][NextService]_vars

----------------------------------------------------------------------------
(* Claims C21..C24: how a request is aborted. *)

\* a required field that is absent or the empty string
MissingOrEmpty(v) == v = Undefined \/ v = <<>>

BlameAborted == bpc = "done" /\ blameError # Null /\ blameResult = Null
DetailAborted == dpc = "done" /\ detailError # Null /\ detailResult = Null

C21_WitnessCommitHash ==
    /\ request.commitHash = <<>> /\ request.filePath = ServiceWorkFile
    /\ DetailAborted /\ detailError = Error("Commit hash is required")
    /\ params.filePath = <<>> /\ BlameAborted

\* the header, status, numstat, diff and patch fetches
ShowFetches == MandatoryFetches \cup {"showDiff", "showPatch"}

\* C22: if the revision cannot be resolved in the scoped repository, the
\* commit-detail request is aborted with the not-found error and none of the
\* header, status, numstat, diff or patch fetches is issued.
C22_UnresolvedRevisionAborts ==
    /\ Failed("revparse")
        => /\ DetailAborted
           /\ detailError = DetailFailure(Error("Commit not found in repository"))
           /\ gitCalls[Len(gitCalls)].op = "revparse"
    /\ (Failed("revparse") \/ request.commitHash \notin KnownCommits)
        => \A op \in ShowFetches : ~Called(op)

\* C22's case: an unknown revision asked of a repository, with the diff and
\* the per-file patches requested
C22_Witness ==
    /\ request.commitHash \notin KnownCommits
    /\ request.includeDiff = Bool(TRUE) /\ request.includeFileDiffs = Bool(TRUE)
    /\ Succeeded("checkIsRepo") /\ Failed("revparse")
    /\ DetailAborted

\* the request names an existing file in a directory outside version control
Unversioned(filePath) ==
    /\ ~MissingOrEmpty(filePath)
    /\ ExistsSync(Resolve(filePath))
    /\ Dirname(Resolve(filePath)) \notin RepoDirs

\* the operations of the calls in log
OpsOf(log) == {log[k].op : k \in 1..Len(log)}

\* C23: if the directory containing filePath is not under version control, the
\* request (blame or commit detail) is aborted with the repository error once
\* the repository check has answered, and no blame, resolve or show call is
\* issued.
C23_UnversionedDirectoryAborts ==
    /\ Unversioned(params.filePath)
        => /\ OpsOf(calls) \subseteq {"checkIsRepo"}
           /\ blameResult = Null
           /\ bpc = "done"
                => /\ BlameAborted
                   /\ calls[1].outcome = "ok"
                        => blameError = Error("Not in a git repository")
    /\ (Unversioned(request.filePath) /\ ~MissingOrEmpty(request.commitHash))
        => /\ OpsOf(gitCalls) \subseteq {"checkIsRepo"}
           /\ detailResult = Null
           /\ dpc = "done"
                => /\ DetailAborted
                   /\ gitCalls[1].outcome = "ok"
                        => detailError = Error("Not in a git repository")

\* C23's case: both requests name files outside version control (one by a
\* relative path) and both are aborted after the repository check
C23_Witness ==
    /\ Unversioned(params.filePath) /\ Len(params.filePath) = 1
    /\ Unversioned(request.filePath) /\ request.commitHash \in KnownCommits
    /\ BlameAborted /\ blameError = Error("Not in a git repository")
    /\ DetailAborted /\ detailError = Error("Not in a git repository")
    /\ Len(calls) = 1 /\ Len(gitCalls) = 1

\* the request names a file that does not exist
NoSuchFile(filePath) == ~MissingOrEmpty(filePath) /\ ~ExistsSync(Resolve(filePath))

\* C24: for both request types, a filePath that does not reference an existing
\* file aborts the request with a not-found error, and no RevisionDetail or
\* BlameResult is returned.  Stated as the claim states it; the code violates
\* it for commit detail.
C24_MissingFileAborts ==
    /\ NoSuchFile(params.filePath)
        => /\ blameResult = Null
           /\ bpc = "done" => (BlameAborted /\ blameError = Error("File does not exist"))
    /\ (NoSuchFile(request.filePath) /\ ~MissingOrEmpty(request.commitHash))
        => /\ detailResult = Null
           /\ dpc = "done" => DetailAborted

\* What the code does guarantee: the blame request is aborted so, before any
\* gateway call.
C24_BlameMissingFileAborts ==
    NoSuchFile(params.filePath)
        => /\ blameResult = Null /\ calls = <<>>
           /\ bpc = "done" => (BlameAborted /\ blameError = Error("File does not exist"))

\* What the code does for commit detail: the file is never looked for, so the
\* request runs on the repository of the directory and can return a result.
C24_DetailIgnoresMissingFile ==
    /\ NoSuchFile(request.filePath) /\ request.commitHash \in KnownCommits
    /\ detailResult # Null /\ detailError = Null
    /\ Succeeded("showNumstat")

----------------------------------------------------------------------------
(* Claims C25, C26: requests in flight together. *)

\* C26: every gateway call of a request is issued against the directory
\* containing that request's own filePath, never against the working directory
\* of the process or the directory of the other request.
C26_CallsScopedToOwnDirectory ==
    /\ \A k \in 1..Len(calls) :
          calls[k].baseDir = Dirname(Resolve(params.filePath))
    /\ \A k \in 1..Len(gitCalls) :
          gitCalls[k].baseDir = Dirname(Resolve(request.filePath))

\* C26's case: two requests naming files of two repositories, neither the
\* working directory, have each fetched from their own
C26_Witness ==
    /\ params.filePath = <<"/", "repo", "a.ts">> /\ request.filePath = ServiceWorkFile
    /\ blameResult # Null /\ detailResult # Null
    /\ calls[Len(calls)].op = "raw" /\ calls[Len(calls)].baseDir = <<"/", "repo">>
    /\ Succeeded("showNumstat")
    /\ \A k \in 1..Len(gitCalls) : gitCalls[k].baseDir = <<"/", "work">>
    /\ Cwd \notin {calls[1].baseDir, gitCalls[1].baseDir}

----------------------------------------------------------------------------
(* SpecInterleaved: two calls of the service in flight, of either kind.  The *)
(* variables above are the locals of the call that is running; the locals   *)
(* of the other call wait in suspended, as its closure does at an await.    *)
(* A call runs from one await to the next in one step; between two steps    *)
(* the event loop may resume the other call.                                *)

\* the locals of the running call
Locals ==
    [blameOutput |-> blameOutput, lines |-> lines, i |-> i, current |-> current,
     blameLines |-> blameLines, ppc |-> ppc, params |-> params, bpc |-> bpc,
     blameResult |-> blameResult, blameError |-> blameError, calls |-> calls,
     nameStatusOut |-> nameStatusOut, numstatOut |-> numstatOut, cpc |-> cpc,
     ci |-> ci, pathToChange |-> pathToChange, totals |-> totals,
     headerInfo |-> headerInfo, hi |-> hi, headerFields |-> headerFields, hpc |-> hpc,
     patchSource |-> patchSource, si |-> si, currentPatch |-> currentPatch,
     buffer |-> buffer, filePatches |-> filePatches, pathToPatch |-> pathToPatch,
     cfList |-> cfList, spc |-> spc, request |-> request, dpc |-> dpc, diff |-> diff,
     detailResult |-> detailResult, detailError |-> detailError, gitCalls |-> gitCalls,
     warnings |-> warnings]

\* the locals of a call that has not started
IdleLocals ==
    [blameOutput |-> <<>>, lines |-> <<>>, i |-> 0, current |-> Null,
     blameLines |-> <<>>, ppc |-> "idle", params |-> Null, bpc |-> "idle",
     blameResult |-> Null, blameError |-> Null, calls |-> <<>>, nameStatusOut |-> <<>>,
     numstatOut |-> <<>>, cpc |-> "idle", ci |-> 0, pathToChange |-> <<>>,
     totals |-> Null, headerInfo |-> <<>>, hi |-> 0, headerFields |-> Null,
     hpc |-> "idle", patchSource |-> <<>>, si |-> 0, currentPatch |-> Null,
     buffer |-> <<>>, filePatches |-> <<>>, pathToPatch |-> <<>>, cfList |-> <<>>,
     spc |-> "idle", request |-> Null, dpc |-> "idle", diff |-> Undefined,
     detailResult |-> Null, detailError |-> Null, gitCalls |-> <<>>, warnings |-> <<>>]

\* getBlameInfo(p) and getCommitDetail(r), called
FreshBlame(p) == [IdleLocals EXCEPT !.params = p, !.bpc = "start"]
FreshDetail(r) == [IdleLocals EXCEPT !.request = r, !.dpc = "start"]

\* the running call is c
Running(c) ==
    /\ blameOutput = c.blameOutput /\ lines = c.lines /\ i = c.i /\ current = c.current
    /\ blameLines = c.blameLines /\ ppc = c.ppc /\ params = c.params /\ bpc = c.bpc
    /\ blameResult = c.blameResult /\ blameError = c.blameError /\ calls = c.calls
    /\ nameStatusOut = c.nameStatusOut /\ numstatOut = c.numstatOut /\ cpc = c.cpc
    /\ ci = c.ci /\ pathToChange = c.pathToChange /\ totals = c.totals
    /\ headerInfo = c.headerInfo /\ hi = c.hi /\ headerFields = c.headerFields
    /\ hpc = c.hpc /\ patchSource = c.patchSource /\ si = c.si
    /\ currentPatch = c.currentPatch /\ buffer = c.buffer
    /\ filePatches = c.filePatches /\ pathToPatch = c.pathToPatch /\ cfList = c.cfList
    /\ spc = c.spc /\ request = c.request /\ dpc = c.dpc /\ diff = c.diff
    /\ detailResult = c.detailResult /\ detailError = c.detailError
    /\ gitCalls = c.gitCalls /\ warnings = c.warnings

\* the call c is resumed
Resume(c) ==
    /\ blameOutput' = c.blameOutput /\ lines' = c.lines /\ i' = c.i
    /\ current' = c.current /\ blameLines' = c.blameLines /\ ppc' = c.ppc
    /\ params' = c.params /\ bpc' = c.bpc /\ blameResult' = c.blameResult
    /\ blameError' = c.blameError /\ calls' = c.calls
    /\ nameStatusOut' = c.nameStatusOut /\ numstatOut' = c.numstatOut /\ cpc' = c.cpc
    /\ ci' = c.ci /\ pathToChange' = c.pathToChange /\ totals' = c.totals
    /\ headerInfo' = c.headerInfo /\ hi' = c.hi /\ headerFields' = c.headerFields
    /\ hpc' = c.hpc /\ patchSource' = c.patchSource /\ si' = c.si
    /\ currentPatch' = c.currentPatch /\ buffer' = c.buffer
    /\ filePatches' = c.filePatches /\ pathToPatch' = c.pathToPatch
    /\ cfList' = c.cfList /\ spc' = c.spc /\ request' = c.request /\ dpc' = c.dpc
    /\ diff' = c.diff /\ detailResult' = c.detailResult /\ detailError' = c.detailError
    /\ gitCalls' = c.gitCalls /\ warnings' = c.warnings

\* a service whose per-path Map is a field of the service object: resuming a
\* call does not bring its own Map back
SwitchSharingMap ==
    /\ suspended # Null
    /\ Resume([suspended EXCEPT !.pathToChange = pathToChange])
    /\ suspended' = Locals

\* the running call waits at its await (or has settled) and the other call
\* is resumed with its own locals
Switch ==
    /\ suspended # Null
    /\ Resume(suspended)
    /\ suspended' = Locals

\* the calls: blame and commit-detail requests on files of two repositories,
\* the commit-detail ones with the diff or the per-file patches requested
InterleavedCalls ==
    { FreshBlame([filePath |-> <<"/", "repo", "a.ts">>, lineFrom |-> Undefined,
                  lineTo |-> Undefined]),
      FreshBlame([filePath |-> ServiceWorkFile, lineFrom |-> Num(2), lineTo |-> Undefined]),
      FreshDetail([commitHash |-> CHOOSE h \in KnownCommits : TRUE,
                   includeDiff |-> Bool(TRUE), includeFileDiffs |-> Undefined,
                   filePath |-> <<"/", "repo", "a.ts">>]),
      FreshDetail([commitHash |-> CHOOSE h \in KnownCommits : TRUE,
                   includeDiff |-> Undefined, includeFileDiffs |-> Bool(TRUE),
                   filePath |-> ServiceWorkFile]) }

InitInterleaved ==
    \E a \in InterleavedCalls, b \in InterleavedCalls :
        Running(a) /\ suspended = b

\* a step of the running call, when it is a blame request
RunBlame == BlameStep(ServiceBlameTexts)

\* a step of the running call, when it is a commit-detail request
RunDetail ==
    /\ NextDetail
    /\ headerInfo' \in {<<>>} \cup ServiceHeaderTexts
    /\ numstatOut' \in {<<>>} \cup ServiceNumstatTexts

NextInterleaved == Switch \/ RunBlame \/ RunDetail

SpecInterleaved == InitInterleaved /\ [][NextInterleaved]_vars

\* the result of the blame call c is computed from its own request and from
\* the blame text it was answered with
OwnBlameResult(c) ==
    c.blameResult # Null
        => c.blameResult = BlameResultOf(Resolve(c.params.filePath),
                                         parseBlameOutput(c.blameOutput),
                                         c.params.lineFrom, c.params.lineTo)

\* the result of the commit-detail call c is computed from its own request and
\* from the header, status, numstat, diff and patch texts it was answered with
OwnDetailResult(c) ==
    c.detailResult # Null
        => LET changed == MapValues(PathToChangeOf(c.nameStatusOut, c.numstatOut))
               unpatched == [k \in 1..Len(changed) |-> Unpatched(changed[k])]
               files == IF c.patchSource = <<>> THEN unpatched
                        ELSE AssignPatches(PatchIndex(SplitPatches(c.patchSource)),
                                           unpatched)
           IN  /\ c.detailResult = DetailResultOf(ParseHeader(c.headerInfo),
                                                  Aggregate(changed), c.diff, files)
               /\ c.patchSource \in {<<>>, c.diff} \cup DetailPatchTexts

OwnResult(c) == OwnBlameResult(c) /\ OwnDetailResult(c)

\* C25: for any interleaving of two requests at their gateway suspension
\* points, each request returns the result it would return if run alone on the
\* same gateway responses: the result of each call is the one computed from its
\* own request and answers, and between two steps of a call its accumulator,
\* per-path map, patch buffer and patch index are as it left them, whatever
\* the other call did meanwhile.
C25_InterleavedResultsAreOwn ==
    /\ [](OwnResult(Locals) /\ OwnResult(suspended))
    /\ [][suspended' = suspended \/ (suspended' = Locals /\ Locals' = suspended)]_vars

\* C25's case: two commit-detail calls, one with the diff and one with the
\* per-file patches, answered with different status reports, have both returned
C25_Witness ==
    /\ detailResult # Null /\ suspended.detailResult # Null
    /\ nameStatusOut # suspended.nameStatusOut
    /\ request.includeDiff # suspended.request.includeDiff
    /\ patchSource # <<>> /\ suspended.patchSource # <<>>
    /\ \E k \in 1..Len(detailResult.changedFiles) :
          detailResult.changedFiles[k].patch # Undefined

\* C25's case: both calls wait at a gateway call, one for the diff and the
\* other for the patch text, each with its changed files computed
C25_WitnessBothSuspended ==
    /\ dpc = "showDiff" /\ suspended.dpc = "showPatch"
    /\ pathToChange # suspended.pathToChange

\* C25's case: a blame call and a commit-detail call have both returned
C25_WitnessMixed ==
    /\ blameResult # Null /\ Len(blameResult.blame) > 0
    /\ suspended.detailResult # Null

----------------------------------------------------------------------------
(* Claims C27, C28: the accumulator of the parser. *)

\* the line is recognized as a header by the pattern of the code
IsMatchedHeader(l) == headerMatch(l).match

\* the last line before ls[c] that is a header (by IsH), or 0
HeaderBefore(IsH(_), ls, c) ==
    LET hs == {h \in 1..(c - 1) : IsH(ls[h])}
    IN  IF hs = {} THEN 0 ELSE CHOOSE h \in hs : \A j \in hs : j <= h

\* the metadata lines ls[k..c-1] assigned to cur
RECURSIVE MetadataFrom(_, _, _, _)
MetadataFrom(cur, ls, k, c) ==
    IF k >= c THEN cur
    ELSE MetadataFrom(IF IsMetadataLine(ls[k]) THEN SetMetadata(cur, ls[k]) ELSE cur,
                      ls, k + 1, c)

\* the record of the header ls[h] and the content line ls[c]: the hash and
\* final line of the header, the metadata lines between the two, the content
OwnRecord(ls, h, c) ==
    LET fresh == [f \in FieldNames |->
                    IF f = "hash" THEN HeaderHash(ls[h])
                    ELSE IF f = "line" THEN Num(HeaderFinalLine(ls[h]))
                    ELSE Undefined]
    IN  [MetadataFrom(fresh, ls, h + 1, c) EXCEPT !["content"] = Tail(ls[c])]

\* every record emitted so far is the record of some content line read and of
\* the last header line before it, with no other content line between the two
RecordsAreOwn(IsH(_)) ==
    \A k \in 1..Len(blameLines) :
        \E c \in 1..(i - 1) :
            LET h == HeaderBefore(IsH, lines, c)
            IN  /\ IsContentLine(lines[c])
                /\ h > 0
                /\ \A j \in (h + 1)..(c - 1) : ~IsContentLine(lines[j])
                /\ blameLines[k] = OwnRecord(lines, h, c)

\* C27: when a header line is read while an accumulator without content is
\* open, that accumulator is discarded: no record is emitted for it, none of
\* its hash, line number or metadata appears in an emitted record, and each
\* emitted record carries only the fields read between its own header and its
\* content line.  Stated as the claim states it; the code violates it (see C2).
C27_HeaderDiscardsOpenAccumulator ==
    ppc \in {"loop", "returned"} => RecordsAreOwn(IsHeaderLine)

\* What the code does guarantee: the same for the header lines it recognizes,
\* those with all four fields.
C27_MatchedHeaderDiscardsOpenAccumulator ==
    ppc \in {"loop", "returned"} => RecordsAreOwn(IsMatchedHeader)

\* a header without content followed by a complete group: the record emitted
\* is the second group's alone
C27_DiscardReached ==
    /\ ppc = "returned" /\ Len(blameLines) = 1
    /\ Len(HeadersOf(lines)) = 2
    /\ \A k \in 1..2 : HasFourFields(HeadersOf(lines)[k])
    /\ HeaderHash(HeadersOf(lines)[1]) # HeaderHash(HeadersOf(lines)[2])
    /\ blameLines[1]["hash"] = HeaderHash(HeadersOf(lines)[2])
    /\ blameLines[1]["author"] = Undefined

\* an accumulator is open before ls[k] is read: a header (by IsH) was read and
\* no content line since
RECURSIVE OpenBefore(_, _, _)
OpenBefore(IsH(_), ls, k) ==
    IF k <= 1 THEN FALSE
    ELSE IF IsH(ls[k - 1]) THEN TRUE
    ELSE IF IsContentLine(ls[k - 1]) THEN FALSE
    ELSE OpenBefore(IsH, ls, k - 1)

\* the content lines read so far while an accumulator was open
ContentLinesRead(IsH(_)) ==
    {c \in 1..(i - 1) : IsContentLine(lines[c]) /\ OpenBefore(IsH, lines, c)}

\* each emitted record has a line number and a content
RecordsAreWhole ==
    \A k \in 1..Len(blameLines) :
        IsNumber(blameLines[k]["line"]) /\ blameLines[k]["content"] # Undefined

C28_RecordsCountMatchedContentLines ==
    /\ [](ppc \in {"loop", "returned"}
            => /\ Len(blameLines) = Cardinality(ContentLinesRead(IsMatchedHeader))
               /\ RecordsAreWhole
               /\ (current # Null) = OpenBefore(IsMatchedHeader, lines, i))
    /\ [][IF i' = i + 1 /\ current # Null /\ IsContentLine(lines[i])
          THEN /\ Len(blameLines') = Len(blameLines) + 1
               /\ SubSeq(blameLines', 1, Len(blameLines)) = blameLines
               /\ current' = Null
          ELSE blameLines' = blameLines]_vars

----------------------------------------------------------------------------
(* SpecStray: the blame parser, or the name-status and numstat loops, run on *)
(* text that no well-behaved git writes: blank and unrecognized lines,      *)
(* metadata and content without a header, report lines with too few fields, *)
(* previous lines whose filename holds single and consecutive spaces.       *)

\* the longest stray text, in lines
MaxStrayLines == 3

StrayBlameLines ==
    { <<"a", "a", "a", "a", "a", "a", "a", "a", " ", "1", "1", " ", "1", " ", "1">>,
      <<"a", "u", "t", "h", "o", "r", " ", "A", "l">>,
      <<Tab, "x">>,
      <<>>,
      <<"A", "u", "t", "h", "o", "r", " ", "A", "l">>,
      <<"a", "a", "a", "a", "a", "a", "a", " ", "1", " ", "1", " ", "1">>,
      <<" ", Tab, "x">>,
      <<"p", "r", "e", "v", "i", "o", "u", "s", " ", "b", "b", "b", "b", "b", "b", "b", "b", " ", "o", " ", " ", "p", " ", "q">>,
      <<"p", "r", "e", "v", "i", "o", "u", "s", " ", "b", "b", "b", "b", "b", "b", "b", "b">>,
      <<"p", "r", "e", "v", "i", "o", "u", "s", " ", " ", "p">> }

StrayStatusLines ==
    { <<"M">>, <<" ", " ">>, <<Tab>>, <<"M", Tab, "p">>, <<"R", "1", "0", "0">> }

StrayNumstatLines ==
    { <<"3", Tab, "1">>, <<"7">>, <<" ", Tab, " ">>, <<"3", Tab, "1", Tab, "p">>, <<"-", Tab, "q">> }

StrayBlameTexts == {TextOf(ls) : ls \in LineSeqs(StrayBlameLines, MaxStrayLines)}
StrayStatusTexts == {TextOf(ls) : ls \in LineSeqs(StrayStatusLines, MaxStrayLines - 1)}
StrayNumstatTexts == {TextOf(ls) : ls \in LineSeqs(StrayNumstatLines, MaxStrayLines - 1)}

InitStray ==
    /\ suspended = Null
    /\ BlameIdle /\ DetailIdle
    /\ \/ /\ blameOutput \in StrayBlameTexts
          /\ lines = Split(blameOutput, NL)
          /\ i = 1
          /\ current = Null
          /\ blameLines = <<>>
          /\ ppc = "loop"
          /\ ChangeIdle
       \/ /\ nameStatusOut \in StrayStatusTexts
          /\ numstatOut \in StrayNumstatTexts
          /\ cpc = "status"
          /\ ci = 1
          /\ pathToChange = <<>>
          /\ totals = Null
          /\ ParserIdle

NextStray == NextParser \/ NextChanges

SpecStray == InitStray /\ [][NextStray]_vars

----------------------------------------------------------------------------
(* Claims C29, C30. *)

\* the line is none of header, metadata, content
IsUnrecognized(l) ==
    Len(l) > 0 /\ ~IsHeaderLine(l) /\ ~IsMatchedHeader(l) /\ ~IsMetadataLine(l)
        /\ ~IsContentLine(l)

\* the line ls[k] is one the parser is to skip: blank, unrecognized, or
\* metadata or content read while no accumulator is open
IsSkippedBlameLine(ls, k) ==
    \/ Len(ls[k]) = 0
    \/ IsUnrecognized(ls[k])
    \/ /\ IsMetadataLine(ls[k]) \/ IsContentLine(ls[k])
       /\ ~OpenBefore(IsHeaderLine, ls, k)

\* the number of tab-separated fields of a report line
FieldCount(l) == Len(Split(l, Tab))

\* C29: for any input text, parsing does not raise: every step of the loops
\* is defined on every line, and blank lines, metadata or content lines read while no
\* accumulator is open, unrecognized lines, status lines with fewer than two
\* tab-separated fields and numstat lines with fewer than three are skipped
\* without creating or changing any record or entry.
C29_StrayLinesAreSkipped ==
    [][/\ (i' = i + 1 /\ IsSkippedBlameLine(lines, i))
            => (current' = current /\ blameLines' = blameLines)
       /\ (cpc = "status" /\ ci' = ci + 1 /\ FieldCount(StatusLinesRead[ci]) < 2)
            => pathToChange' = pathToChange
       /\ (cpc = "numstat" /\ ci' = ci + 1 /\ FieldCount(NumstatLinesRead[ci]) < 3)
            => pathToChange' = pathToChange]_vars

\* C29's case: a text of content, metadata and an unrecognized line, read to
\* its end without a record
C29_Witness ==
    /\ ppc = "returned" /\ blameLines = <<>> /\ current = Null
    /\ Len(lines) = MaxStrayLines + 1
    /\ IsContentLine(lines[1]) /\ IsMetadataLine(lines[2]) /\ IsUnrecognized(lines[3])

\* C29's case: reports of short lines only, read to their ends without an entry
C29_WitnessReports ==
    /\ cpc = "done" /\ pathToChange = <<>>
    /\ Len(StatusLinesRead) = MaxStrayLines /\ Len(NumstatLinesRead) = MaxStrayLines
    /\ \A k \in 1..(MaxStrayLines - 1) :
          /\ Len(Trim(StatusLinesRead[k])) > 0 /\ FieldCount(StatusLinesRead[k]) = 1
          /\ Len(Trim(NumstatLinesRead[k])) > 0 /\ FieldCount(NumstatLinesRead[k]) = 2

\* C29's case: stray lines around a group leave its record as it is
C29_WitnessAround ==
    /\ ppc = "returned" /\ Len(blameLines) = 1
    /\ IsMatchedHeader(lines[1]) /\ IsUnrecognized(lines[2]) /\ IsContentLine(lines[3])
    /\ blameLines[1]["content"] = Tail(lines[3])

PreviousPrefix == <<"p", "r", "e", "v", "i", "o", "u", "s", " ">>

\* the line just read is a previous line and was assigned to the accumulator
PreviousLineRead ==
    /\ ppc = "loop" /\ i > 1
    /\ StartsWith(lines[i - 1], PreviousPrefix)
    /\ current # Null

\* C30: for a metadata line "previous <rest>", previousHash is the part of
\* <rest> before its first space and previousFilename is everything after that
\* first space, so that previousHash + ' ' + previousFilename equals <rest>
\* whenever <rest> contains a space; consecutive spaces are preserved.
C30_PreviousSplitsAtFirstSpace ==
    PreviousLineRead
        => LET rest == Substring(lines[i - 1], Len(PreviousPrefix))
               sp == IndexOf(rest, Space, 1)
           IN  IF sp = 0
               THEN /\ current["previousHash"] = rest
                    /\ current["previousFilename"] = <<>>
               ELSE /\ current["previousHash"] = SubSeq(rest, 1, sp - 1)
                    /\ current["previousFilename"] = SubSeq(rest, sp + 1, Len(rest))
                    /\ current["previousHash"] \o <<Space>> \o current["previousFilename"]
                            = rest

\* C30's case: a filename with two consecutive spaces and a single one
C30_Witness ==
    /\ PreviousLineRead
    /\ current["previousHash"] = <<"b", "b", "b", "b", "b", "b", "b", "b">>
    /\ current["previousFilename"] = <<"o", " ", " ", "p", " ", "q">>

\* C30's other cases: no filename, and an empty hash
C30_WitnessNoSpace ==
    /\ PreviousLineRead
    /\ current["previousHash"] = <<"b", "b", "b", "b", "b", "b", "b", "b">>
    /\ current["previousFilename"] = <<>>

C30_WitnessEmptyHash ==
    /\ PreviousLineRead
    /\ current["previousHash"] = <<>>
    /\ current["previousFilename"] = <<"p">>

----------------------------------------------------------------------------
(* Claims C31, C32: the fields of a status record and of a numstat record. *)

\* the status record just read by the name-status loop
StatusRecordRead == Split(StatusLinesRead[ci], Tab)

\* a status record is being read: a line of two fields or more that does not
\* trim to nothing
ReadsStatusRecord ==
    /\ cpc = "status" /\ ci' = ci + 1
    /\ Len(Trim(StatusLinesRead[ci])) > 0
    /\ Len(StatusRecordRead) >= 2

\* the record is classified rename or copy
IsRenameOrCopy(parts) == CharAt0(parts[1]) \in {<<"R">>, <<"C">>}

\* the oldPath the entry of path P had before the step, absent without entry
OldPathBefore(P) ==
    IF MapHas(pathToChange, P) THEN MapGet(pathToChange, P).oldPath ELSE Undefined

\* C31: for a status record classified R or C, field 2 becomes oldPath and
\* field 3 becomes path, and when field 3 is absent field 2 is used as both;
\* for every other classification field 2 is path and oldPath is not set by
\* status parsing (it stays what it was); status is always the first
\* character of field 1; no other entry changes.
C31_StatusRecordFields ==
    [][ReadsStatusRecord =>
          LET parts == StatusRecordRead
              P == IF IsRenameOrCopy(parts) /\ Len(parts) >= 3 THEN parts[3] ELSE parts[2]
          IN  /\ MapHas(pathToChange', P)
              /\ MapGet(pathToChange', P).path = P
              /\ MapGet(pathToChange', P).status = <<parts[1][1]>>
              /\ IF IsRenameOrCopy(parts)
                 THEN MapGet(pathToChange', P).oldPath = parts[2]
                 ELSE MapGet(pathToChange', P).oldPath = OldPathBefore(P)
              /\ \A k \in 1..Len(pathToChange) :
                    pathToChange[k].key # P => pathToChange'[k] = pathToChange[k]
              /\ Len(pathToChange') = Len(pathToChange) + (IF MapHas(pathToChange, P) THEN 0 ELSE 1)
      ]_vars

\* C31's case: the copy o -> q was read: oldPath o, path q, status C
C31_Witness ==
    /\ cpc = "status" /\ ci > 1
    /\ StatusLinesRead[ci - 1] = <<"C", "7", "5", Tab, "o", Tab, "q">>
    /\ MapGet(pathToChange, <<"q">>) =
          [status |-> <<"C">>, path |-> <<"q">>, oldPath |-> <<"o">>,
           insertions |-> Undefined, deletions |-> Undefined]

\* C31's case: a rename record without field 3: field 2 is both paths
C31_WitnessNoThirdField ==
    /\ cpc = "status" /\ ci > 1
    /\ StatusLinesRead[ci - 1] = <<"R", "1", "0", "0", Tab, "q">>
    /\ MapGet(pathToChange, <<"q">>).path = <<"q">>
    /\ MapGet(pathToChange, <<"q">>).oldPath = <<"q">>
    /\ MapGet(pathToChange, <<"q">>).status = <<"R">>

\* C31's case: a modification read for a path that has no entry: oldPath absent
C31_WitnessOther ==
    /\ cpc = "status" /\ ci = 2
    /\ StatusLinesRead[1] = <<"M", Tab, "p">>
    /\ MapGet(pathToChange, <<"p">>) = [NewChange(<<"p">>) EXCEPT !.status = <<"M">>]

\* the numstat record just read by the numstat loop
NumstatRecordRead == Split(NumstatLinesRead[ci], Tab)

\* a numstat record is being read: a line of three fields or more that does
\* not trim to nothing
ReadsNumstatRecord ==
    /\ cpc = "numstat" /\ ci' = ci + 1
    /\ Len(Trim(NumstatLinesRead[ci])) > 0
    /\ Len(NumstatRecordRead) >= 3

\* the sentinel git writes in place of a count for a binary change
BinarySentinel == <<"-">>

\* the entries of changedFiles whose field holds a value
WithCount(files, field) == SelectSeq(files, LAMBDA f : f[field] # Undefined)

\* an entry of changedFiles has no insertions or no deletions
SomeCountAbsent ==
    \E k \in 1..Len(ChangedFiles) :
        ChangedFiles[k].insertions = Undefined \/ ChangedFiles[k].deletions = Undefined

\* C32: for a numstat record whose insertions or deletions field is the
\* non-numeric sentinel, the corresponding field of the ChangedFile is absent
\* (neither zero nor any other number value), and the aggregate insertions and
\* deletions are the exact integer sums of the numeric entries: the entries
\* without a count add nothing.
C32_SentinelCountIsAbsent ==
    /\ [](cpc = "done" /\ SomeCountAbsent
            => /\ IsNumber(totals.insertions) /\ IsNumber(totals.deletions)
               /\ totals.insertions[2] =
                     NumericSum(WithCount(ChangedFiles, "insertions"), "insertions")
               /\ totals.deletions[2] =
                     NumericSum(WithCount(ChangedFiles, "deletions"), "deletions")
               /\ \A k \in 1..Len(ChangedFiles) :
                     /\ ChangedFiles[k].insertions # Undefined => IsNumber(ChangedFiles[k].insertions)
                     /\ ChangedFiles[k].deletions # Undefined => IsNumber(ChangedFiles[k].deletions))
    /\ [][ReadsNumstatRecord =>
            LET parts == NumstatRecordRead
                P == IF Len(parts) >= 4 THEN parts[4] ELSE parts[3]
            IN  /\ MapHas(pathToChange', P)
                /\ parts[1] = BinarySentinel => MapGet(pathToChange', P).insertions = Undefined
                /\ parts[2] = BinarySentinel => MapGet(pathToChange', P).deletions = Undefined
                /\ parts[1] # BinarySentinel
                      => MapGet(pathToChange', P).insertions = Num(DecimalValue(parts[1]))
                /\ parts[2] # BinarySentinel
                      => MapGet(pathToChange', P).deletions = Num(DecimalValue(parts[2]))
       ]_vars

\* C32's case: the binary record was read for q after p was counted 3 / 1:
\* q has neither count and the totals are 3 and 1
C32_Witness ==
    /\ cpc = "done" /\ SomeCountAbsent
    /\ NumstatLinesRead[1] = <<"3", Tab, "1", Tab, "p">>
    /\ NumstatLinesRead[2] = <<"-", Tab, "-", Tab, "q">>
    /\ MapGet(pathToChange, <<"q">>).insertions = Undefined
    /\ MapGet(pathToChange, <<"q">>).deletions = Undefined
    /\ totals.insertions = Num(3) /\ totals.deletions = Num(1)

\* C32's case: the binary record replaces counts read earlier for the path
C32_WitnessOverCounts ==
    /\ cpc = "done"
    /\ NumstatLinesRead[1] = <<"3", Tab, "1", Tab, "q", Tab, "p">>
    /\ NumstatLinesRead[2] = <<"-", Tab, "-", Tab, "q">>
    /\ Len(ChangedFiles) = 2
    /\ totals.insertions = Num(3)

----------------------------------------------------------------------------
(* SpecMessage: the header loop run on message bodies: lines with the      *)
(* 4-space indent that are empty, blank or text with white space of their   *)
(* own after the indent, among lines with a shorter indent or none.         *)

MessageLines ==
    { <<" ", " ", " ", " ", "f", "i", "x">>, <<" ", " ", " ", " ", " ", " ", "f", "i", "x", " ", "a", " ">>, <<" ", " ", " ", " ", " ">>, <<" ", " ", " ", " ">>,
      <<>>, <<" ", " ", " ", "y">>, <<"t", "r", "e", "e", " ", "4", "b", "8", "2", "5", "d", "c">> }

MessageTexts == {Join(ls, NL) : ls \in LineSeqs(MessageLines, MaxHeaderLines)}

InitMessage ==
    /\ headerInfo \in MessageTexts
    /\ hi = 1
    /\ headerFields = NewHeader
    /\ hpc = "loop"
    /\ ParserIdle /\ BlameIdle /\ ChangeIdle /\ PatchIdle /\ RequestIdle /\ suspended = Null

SpecMessage == InitMessage /\ [][NextHeader]_vars

----------------------------------------------------------------------------
(* Claim C33. *)

\* the indent of a message-body line
BodyIndent == <<" ", " ", " ", " ">>

\* the message-body lines of the header text, the indent stripped
BodyLines ==
    LET body == SelectSeq(HeaderLinesRead, LAMBDA l : StartsWith(l, BodyIndent))
    IN  [k \in 1..Len(body) |-> SubSeq(body[k], Len(BodyIndent) + 1, Len(body[k]))]

\* the first line of ls that satisfies Keep, the empty string without one
FirstLine(ls, Keep(_)) ==
    IF \E k \in 1..Len(ls) : Keep(ls[k])
    THEN ls[CHOOSE k \in 1..Len(ls) : Keep(ls[k]) /\ \A j \in 1..(k - 1) : ~Keep(ls[j])]
    ELSE <<>>

IsNonEmpty(l) == Len(l) > 0
IsNonBlank(l) == Len(Trim(l)) > 0

\* message is the body lines joined with newlines and trimmed
MessageIsBody == headerFields.message = Trim(Join(BodyLines, NL))

\* C33 as stated: summary is the first message-body line (4-space indent
\* stripped) that is non-empty, and message is all body lines in order, blank
\* ones included, joined with newlines and trimmed; lines without the 4-space
\* indent never contribute to summary or message.
C33_SummaryIsFirstNonEmptyBodyLine ==
    hpc = "done"
        => /\ headerFields.summary = FirstLine(BodyLines, IsNonEmpty)
           /\ MessageIsBody

\* C33 amended: summary is the first message-body line that is not blank, with
\* the white space around its text trimmed (empty when every body line is
\* blank); message is all body lines in order, blank ones included, joined
\* with newlines and trimmed; lines without the 4-space indent never
\* contribute to summary or message.
C33_SummaryIsFirstNonBlankBodyLineTrimmed ==
    hpc = "done"
        => /\ headerFields.summary = Trim(FirstLine(BodyLines, IsNonBlank))
           /\ MessageIsBody

\* C33's case: a blank body line, then text with white space around it, among
\* lines without the indent
C33_Witness ==
    /\ hpc = "done"
    /\ HeaderLinesRead = <<<<" ", " ", " ", "y">>, <<" ", " ", " ", " ", " ">>, <<" ", " ", " ", " ", " ", " ", "f", "i", "x", " ", "a", " ">>>>
    /\ headerFields.summary = <<"f", "i", "x", " ", "a">>
    /\ headerFields.message = <<"f", "i", "x", " ", "a">>

\* C33's case: body lines around an empty one make a message of three lines
C33_WitnessMessage ==
    /\ hpc = "done"
    /\ HeaderLinesRead = <<<<" ", " ", " ", " ", "f", "i", "x">>, <<" ", " ", " ", " ">>, <<" ", " ", " ", " ", " ", " ", "f", "i", "x", " ", "a", " ">>>>
    /\ headerFields.summary = <<"f", "i", "x">>
    /\ headerFields.message = <<"f", "i", "x", NL, NL, " ", " ", "f", "i", "x", " ", "a">>

----------------------------------------------------------------------------
(* Claim C34. *)

\* the section filePatches[k] is indexed under the key
Claims(k, key) ==
    key # <<>>
    /\ (stripPrefix(filePatches[k].aPath) = key \/ stripPrefix(filePatches[k].bPath) = key)

\* the keys two sections or more are indexed under
ContestedKeys ==
    {key \in {stripPrefix(filePatches[k].aPath) : k \in 1..Len(filePatches)}
            \cup {stripPrefix(filePatches[k].bPath) : k \in 1..Len(filePatches)} :
        \E j, k \in 1..Len(filePatches) : j < k /\ Claims(j, key) /\ Claims(k, key)}

\* C34: when two sections of a diff would be indexed under the same stripped
\* path, a lookup of that path returns the text of the section declared later
\* in the diff: the last of the sections indexed under it.
C34_LaterSectionWins ==
    IndexBuilt =>
        \A key \in ContestedKeys :
            \E k \in 1..Len(filePatches) :
                /\ Claims(k, key)
                /\ \A j \in (k + 1)..Len(filePatches) : ~Claims(j, key)
                /\ MapGet(pathToPatch, key) = filePatches[k].patch

\* C34's case: the section p -> p, then the section o -> p with another text:
\* the lookup of p returns the second
C34_Witness ==
    /\ IndexBuilt
    /\ Len(filePatches) = 2
    /\ filePatches[1].aPath = <<"p">> /\ filePatches[1].bPath = <<"p">>
    /\ filePatches[2].aPath = <<"o">> /\ filePatches[2].bPath = <<"p">>
    /\ filePatches[1].patch # filePatches[2].patch
    /\ <<"p">> \in ContestedKeys
    /\ MapGet(pathToPatch, <<"p">>) = filePatches[2].patch

----------------------------------------------------------------------------
(* Claim C35. *)

\* a result without what the diff and patch fetches add: diff and every
\* changedFiles[].patch unset
WithoutDiffs(r) ==
    [r EXCEPT !.diff = Undefined,
              !.changedFiles = [k \in 1..Len(r.changedFiles) |-> Unpatched(r.changedFiles[k])]]

\* the result the three texts give when nothing more is asked for
CoreResult(headerText, statusText, numstatText) ==
    LET files == MapValues(PathToChangeOf(statusText, numstatText))
    IN  DetailResultOf(ParseHeader(headerText), Aggregate(files), Undefined,
                       [k \in 1..Len(files) |-> Unpatched(files[k])])

\* C35: for fixed header, status and numstat texts, every field of the
\* returned RevisionDetail other than diff and changedFiles[].patch (the
\* number, order, status, path, oldPath, insertions and deletions of the
\* changedFiles and the three totals included) is the same for every value of
\* includeDiff / includeFileDiffs and for every success or failure of the
\* diff and patch fetches: it is what the three texts alone give.
C35_CoreIndependentOfDiffs ==
    Returned => WithoutDiffs(detailResult) = CoreResult(headerInfo, nameStatusOut, numstatOut)

\* C35's case: both flags set, the diff fetched and split: diff and patches
\* are set on a result of two changed files
C35_Witness ==
    /\ Returned
    /\ request.includeDiff = Bool(TRUE) /\ request.includeFileDiffs = Bool(TRUE)
    /\ Succeeded("showDiff")
    /\ detailResult.diff # Undefined /\ detailResult.diff # <<>>
    /\ Len(detailResult.changedFiles) = 2
    /\ \A k \in 1..2 : detailResult.changedFiles[k].patch # Undefined
    /\ detailResult.insertions = Num(3)

\* C35's case: the same texts, the diff fetch and the patch fetch both failed
C35_WitnessFailures ==
    /\ Returned
    /\ Failed("showDiff") /\ Failed("showPatch")
    /\ detailResult.diff = Undefined
    /\ Len(detailResult.changedFiles) = 2
    /\ \A k \in 1..2 : detailResult.changedFiles[k].patch = Undefined
    /\ detailResult.insertions = Num(3)

\* C35's case: the same texts, nothing asked for and no fetch made
C35_WitnessNotAsked ==
    /\ Returned
    /\ ~Called("showDiff") /\ ~Called("showPatch")
    /\ Len(detailResult.changedFiles) = 2
    /\ detailResult.insertions = Num(3)

----------------------------------------------------------------------------
(* Claim C36. *)

\* every record of the result lies within the reported line range
BlameWithinRange ==
    \A k \in 1..Len(blameResult.blame) :
        /\ blameResult.lineRange.from[2] <= LineOf(blameResult.blame[k])
        /\ LineOf(blameResult.blame[k]) <= blameResult.lineRange.to[2]

\* requestedLines and totalLines count the returned and the parsed records
CountsAreLengths ==
    /\ blameResult.requestedLines = Len(blameResult.blame)
    /\ blameResult.totalLines = Len(blameLines)

\* C36: in every BlameResult, every record of blame satisfies
\* lineRange.from <= lineNumber <= lineRange.to, requestedLines equals the
\* length of blame and totalLines equals the number of parsed records,
\* whether both, one or neither bound was supplied.
C36_ResultWithinRange ==
    (BlameFetched /\ blameResult # Null) => (BlameWithinRange /\ CountsAreLengths)

\* what the code keeps: the two counts always, and the range whenever a bound
\* was supplied or the parsed records are numbered within their count
C36_ResultWithinRangeWhenFiltered ==
    (BlameFetched /\ blameResult # Null)
        => /\ CountsAreLengths
           /\ (params.lineFrom # Undefined \/ params.lineTo # Undefined
                  \/ MaxLineOf(blameLines) <= Len(blameLines))
                 => BlameWithinRange

\* the blame of a file of three lines whose second group has a three-field
\* header, requested without bounds: the records of lines 1 and 3 are returned
\* with lineRange.to = 2
C36_RecordAboveRange ==
    /\ BlameFetched /\ blameResult # Null
    /\ params.lineFrom = Undefined /\ params.lineTo = Undefined
    /\ LET headers == HeadersOf(Split(blameOutput, NL))
       IN  /\ Len(headers) = 3
           /\ \A k \in 1..3 : HeaderFinalLine(headers[k]) = k
           /\ HasFourFields(headers[1]) /\ ~HasFourFields(headers[2]) /\ HasFourFields(headers[3])
    /\ Len(blameResult.blame) = 2
    /\ LineOf(blameResult.blame[2]) = 3
    /\ blameResult.lineRange.to = Num(2)

----------------------------------------------------------------------------
(* The tool handlers of the server: each awaits the service call and either *)
(* returns its result as text content or rethrows its rejection under the   *)
(* tool's failure prefix.  A message is the sequence of the pieces it is     *)
(* concatenated from.                                                        *)

BlamePrefix == "Failed to get git blame information: "
DetailPrefix == "Failed to get commit details: "

\* error.message: the pieces of the message of an Error of the service
MessageOf(e) == IF "prefix" \in DOMAIN e THEN <<e.prefix, e.message>> ELSE <<e.message>>

\* handleGitBlame once getBlameInfo has settled with result or error
handleGitBlame(result, error) ==
    IF error # Null
    THEN [thrown |-> TRUE, message |-> <<BlamePrefix>> \o MessageOf(error), content |-> Null]
    ELSE [thrown |-> FALSE, message |-> <<>>, content |-> result]

\* handleGitCommitDetail once getCommitDetail has settled with result or error
handleGitCommitDetail(result, error) ==
    IF error # Null
    THEN [thrown |-> TRUE, message |-> <<DetailPrefix>> \o MessageOf(error), content |-> Null]
    ELSE [thrown |-> FALSE, message |-> <<>>, content |-> result]

\* what the caller of the tool receives, Null while the call is in flight
BlameResponse == IF bpc = "done" THEN handleGitBlame(blameResult, blameError) ELSE Null
DetailResponse == IF dpc = "done" THEN handleGitCommitDetail(detailResult, detailError) ELSE Null

----------------------------------------------------------------------------
(* Claim C37. *)

\* the messages of the causes a request is aborted for
UnderlyingCauses ==
    {"File path is required", "Commit hash is required", "File does not exist",
     "Not in a git repository", "Commit not found in repository", "git failed"}

\* the message is the prefix once, then the message of an underlying cause
PrefixedOnce(message, prefix) ==
    Len(message) = 2 /\ message[1] = prefix /\ message[2] \in UnderlyingCauses

\* C37: every aborted tool call is surfaced to the caller as exactly one
\* failure whose message is the tool's failure prefix applied once, followed by
\* the underlying cause's message; the prefix is never applied twice.
C37_FailurePrefixedOnce ==
    /\ BlameAborted
          => BlameResponse.thrown /\ PrefixedOnce(BlameResponse.message, BlamePrefix)
    /\ DetailAborted
          => DetailResponse.thrown /\ PrefixedOnce(DetailResponse.message, DetailPrefix)

\* what the code does: the blame tool applies its prefix once; the commit
\* detail tool applies its prefix once to a failure of validation or of the
\* repository check and twice to a failure of the resolve or of a fetch
C37_DetailFailurePrefixedTwice ==
    /\ BlameAborted
          => BlameResponse.thrown /\ PrefixedOnce(BlameResponse.message, BlamePrefix)
    /\ DetailAborted
          => /\ DetailResponse.thrown
             /\ IF Called("revparse")
                THEN /\ Len(DetailResponse.message) = 3
                     /\ DetailResponse.message[1] = DetailPrefix
                     /\ DetailResponse.message[2] = DetailPrefix
                     /\ DetailResponse.message[3] \in UnderlyingCauses
                ELSE PrefixedOnce(DetailResponse.message, DetailPrefix)

\* an unresolved revision is surfaced under the prefix applied twice
C37_PrefixTwiceReached ==
    /\ DetailAborted
    /\ DetailResponse.message =
          <<DetailPrefix, DetailPrefix, "Commit not found in repository">>

\* a missing file is surfaced by the blame tool under its prefix applied once
C37_BlamePrefixOnceReached ==
    /\ BlameAborted
    /\ BlameResponse.message = <<BlamePrefix, "File does not exist">>

----------------------------------------------------------------------------
(* Claim C38. *)

\* the gateway calls of a commit-detail request in the order of the code
CallOrder ==
    <<"checkIsRepo", "revparse", "showHeader", "showNameStatus", "showNumstat",
      "showDiff", "showPatch">>

\* the place of a call in that order
Rank(op) == CHOOSE r \in 1..Len(CallOrder) : CallOrder[r] = op

\* C38: within one commit-detail request the gateway calls are issued strictly
\* one after another in the order repository check, resolve, header, status,
\* numstat, full diff, patch-only; each call is issued only after the previous
\* one has settled (only the last call of the log can be pending, and the
\* request waits at it), and the diff or patch fetch is issued only after
\* header, status and numstat have all succeeded.
C38_CallsInOrderOneAtATime ==
    /\ \A j, k \in 1..Len(gitCalls) :
          j < k => Rank(gitCalls[j].op) < Rank(gitCalls[k].op)
    /\ \A k \in 1..Len(gitCalls) :
          /\ k < Len(gitCalls) => gitCalls[k].outcome \in {"ok", "failed"}
          /\ gitCalls[k].outcome = "pending" => dpc = gitCalls[k].op
          /\ Rank(gitCalls[k].op) <= 5
                => /\ k = Rank(gitCalls[k].op)
                   /\ \A j \in 1..(k - 1) : gitCalls[j].outcome = "ok"
          /\ gitCalls[k].op \in {"showDiff", "showPatch"}
                => \A op \in MandatoryFetches : Succeeded(op)

\* C38's case: all seven calls were issued, the full-diff fetch failed before
\* the patch-only fetch was issued
C38_Witness ==
    /\ dpc = "done"
    /\ [k \in 1..Len(gitCalls) |-> gitCalls[k].op] = CallOrder
    /\ gitCalls[6].outcome = "failed"
    /\ gitCalls[7].outcome = "ok"

\* C38's case: the request waits at the numstat fetch, the calls before it
\* have returned
C38_WitnessWaiting ==
    /\ dpc = "showNumstat"
    /\ Len(gitCalls) = 5
    /\ gitCalls[5].outcome = "pending"

----------------------------------------------------------------------------
(* SpecServiceFair: SpecService where every gateway call a request waits at *)
(* eventually returns or fails and the event loop then runs the request's   *)
(* continuation: a request that has not completed eventually leaves the     *)
(* await (or the entry) it is at.                                           *)

\* where a blame request and a commit-detail request can be
BlamePositions == {"start", "checkIsRepo", "blame", "done"}
DetailPositions ==
    {"start", "checkIsRepo", "revparse", "showHeader", "showNameStatus", "showNumstat",
     "showDiff", "showPatch", "done"}

\* the request leaves the position it is at
BlameResumes == bpc # "done" /\ bpc' \in BlamePositions \ {bpc}
DetailResumes == dpc # "done" /\ dpc' \in DetailPositions \ {dpc}

SpecServiceFair ==
    /\ InitService
    /\ [][NextService]_vars
    /\ WF_bpc(BlameResumes)
    /\ WF_dpc(DetailResumes)

----------------------------------------------------------------------------
(* Claim C39. *)

\* the call has one outcome: a result or an error, not both and not neither
OneOutcome(result, error, response) ==
    /\ (result # Null) # (error # Null)
    /\ response.thrown <=> error # Null
    /\ response.thrown <=> response.content = Null

\* C39: provided every gateway call eventually returns or fails, every blame
\* and commit-detail request eventually completes, and a completed request
\* has exactly one outcome, either a result or an error, never both and never
\* neither; a request in flight has none yet.
C39_RequestsCompleteWithOneOutcome ==
    /\ <>(bpc = "done")
    /\ <>(dpc = "done")
    /\ [](bpc = "done" => OneOutcome(blameResult, blameError, BlameResponse))
    /\ [](dpc = "done" => OneOutcome(detailResult, detailError, DetailResponse))
    /\ [](bpc # "done" => (blameResult = Null /\ blameError = Null))
    /\ [](dpc # "done" => (detailResult = Null /\ detailError = Null))

\* C39's case: both requests passed every gateway call and completed with a
\* result
C39_Witness ==
    /\ bpc = "done" /\ dpc = "done"
    /\ blameResult # Null /\ blameError = Null
    /\ detailResult # Null /\ detailError = Null
    /\ Len(calls) = 2 /\ Len(gitCalls) >= 5

\* C39's case: both requests completed with an error after a failed call
C39_WitnessErrors ==
    /\ bpc = "done" /\ dpc = "done"
    /\ blameResult = Null /\ blameError = Error("git failed")
    /\ detailResult = Null /\ detailError = DetailFailure(Error("git failed"))

====
